---------------------------- MODULE Spec2Model ----------------------------
(***************************************************************************)
(* Model of the two lock-based containers of the repository:               *)
(*   - threadsafe_queue<T>  (two-lock linked queue with a dummy node and   *)
(*     a condition variable),                                              *)
(*   - threadsafe_stack<T>  (std::stack guarded by one mutex).             *)
(* Every statement that touches shared state is one step of the calling    *)
(* thread, so that all interleavings the mutexes allow are explored.       *)
(***************************************************************************)
EXTENDS Integers, Sequences, FiniteSets, TLC

(***************************************************************************)
(* Bounds of the model.                                                    *)
(***************************************************************************)
\* calls the threads of the free mix (Spec) may start, in total
MaxCalls == 3
\* items each producer of the producer/consumer run pushes
ItemsPerProducer == 1
\* pushes of the single producer of the FIFO run
FifoPushes == 3
\* length of the longest push sequence of the sequential stack run
MaxSeqLen == 3
\* items each pushing thread of the concurrent stack run pushes
StackItemsPerThread == 3
\* calls the threads of the free mix on the stack (SpecStack) may start
MaxStackCalls == 4
\* pushes the producers of the ordering run (SpecOrder) make, in total
OrderPushes == 3
\* removing calls the consumers of the ordering run may start, in total
OrderPops == 3
\* pushes of the sequential run of the queue (SpecQueueSeq), at most
QueueSeqPushes == 4
\* calls the threads of the out-parameter run (SpecOut) may start, in total
MaxOutCalls == 4

(***************************************************************************)
(* Threads.  The free mix uses Threads; the producer/consumer run of       *)
(* test_concurrent_operations uses Producers and Consumers.                *)
(***************************************************************************)
Threads == {0, 1, 2}
Producers == {0, 1}
Consumers == {2, 3}

\* nullptr for node pointers; nodes are identified by positive integers
NullPtr == 0
\* the empty std::shared_ptr<T>
NoData == -1
\* an `int item;` that was never assigned
Uninit == -2
\* "no thread holds the mutex"
NoThread == -1

VARIABLES
  \* ---- threadsafe_queue ----
  nodes,        \* node id -> [data, next]: the nodes currently allocated
  nextId,       \* number of nodes allocated so far (ids are never reused)
  head,         \* std::unique_ptr<node> head
  tail,         \* node* tail
  head_mutex,   \* owner of head_mutex, or NoThread
  tail_mutex,   \* owner of tail_mutex, or NoThread
  waiters,      \* threads blocked inside data_cond.wait
  \* ---- per thread ----
  role,         \* "any" | "producer" | "consumer" | "fifo_producer" | ...
  pc,           \* position of the thread
  op,           \* the queue/stack operation the thread is inside
  calls,        \* calls started by the thread
  new_data,     \* push: the payload (new_data)
  p,            \* push: the freshly allocated node
  tl,           \* result of the last get_tail()
  old_head,     \* pop_head: the removed node
  value,        \* the caller's out-parameter (T& value / int item)
  ret,          \* result of the last completed call
  \* ---- threadsafe_stack ----
  data,         \* std::stack<T> data, the top is the last element
  m,            \* owner of the mutex m, or NoThread
  res,          \* pop(): the local std::shared_ptr<T> res
  \* ---- the test drivers ----
  results,      \* queue test: std::unordered_set<int> results;
                \* stack test: std::vector<int> results
  \* ---- history (not read by the program) ----
  pushed,       \* payloads in the order of their tail advance
  popped,       \* payloads in the order of their removal by pop_head
  handed,       \* payloads in the order the removing calls returned them
  absq,         \* the atomic FIFO queue the history is compared against
  lin,          \* per thread: what the atomic queue answered at the
                \* linearization point of its current call, the
                \* number k of its removal among all removals, and
                \* the caller's value at the entry of the call (arg)
  \* ---- a copy of the stack ----
  copy_data,    \* the member data of a stack copy-constructed from the stack
  snap          \* history: the stack's sequence when the copy took the lock

qvars == <<nodes, nextId, head, tail, head_mutex, tail_mutex, waiters>>
tvars == <<role, pc, op, calls, new_data, p, tl, old_head, value, ret>>
svars == <<data, m, res>>
hvars == <<pushed, popped, handed, absq, lin>>
cvars == <<copy_data, snap>>
vars == <<qvars, tvars, svars, results, hvars, cvars>>


(***************************************************************************)
(* threadsafe_queue: construction.                                         *)
(***************************************************************************)
\* a default-constructed node: empty payload slot, empty next link
EmptyNode == [data |-> NoData, next |-> NullPtr]

\* threadsafe_queue(): head(new node), tail(head.get())
QueueInit ==
  /\ nodes = (1 :> EmptyNode)
  /\ nextId = 1
  /\ head = 1
  /\ tail = 1
  /\ head_mutex = NoThread
  /\ tail_mutex = NoThread
  /\ waiters = {}

\* the result record of a completed call: which call, its boolean outcome
\* (try_pop: a value was removed; empty: the answer), its returned payload
Result(o, ok, v) == [op |-> o, ok |-> ok, val |-> v]
NoResult == Result("none", FALSE, NoData)
NoLin == [empty |-> FALSE, val |-> NoData, k |-> 0, arg |-> Uninit]

\* threadsafe_stack() = default
StackInit ==
  /\ data = <<>>
  /\ m = NoThread

ThreadInit(T, r) ==
  /\ role = [t \in T |-> r[t]]
  /\ res = [t \in T |-> NoData]
  /\ pc = [t \in T |-> "idle"]
  /\ op = [t \in T |-> "none"]
  /\ calls = [t \in T |-> 0]
  /\ new_data = [t \in T |-> NoData]
  /\ p = [t \in T |-> NullPtr]
  /\ tl = [t \in T |-> NullPtr]
  /\ old_head = [t \in T |-> NullPtr]
  /\ value = [t \in T |-> Uninit]
  /\ ret = [t \in T |-> NoResult]
  /\ lin = [t \in T |-> NoLin]

\* no copy of the stack exists
CopyInit ==
  /\ copy_data = <<>>
  /\ snap = <<>>

HistoryInit ==
  /\ pushed = <<>>
  /\ popped = <<>>
  /\ handed = <<>>
  /\ absq = <<>>

\* a thread is between two calls
Idle(t) == pc[t] \in {"idle", "returned"}

Goto(t, l) == pc' = [pc EXCEPT ![t] = l]

\* entering an operation: the thread's position and call count; the
\* history remembers the caller's value
Enter(t, o, l) ==
  /\ pc' = [pc EXCEPT ![t] = l]
  /\ op' = [op EXCEPT ![t] = o]
  /\ calls' = [calls EXCEPT ![t] = @ + 1]
  /\ lin' = [lin EXCEPT ![t] = [NoLin EXCEPT !.arg = value[t]]]

(***************************************************************************)
(* threadsafe_queue::push                                                  *)
(***************************************************************************)
\* std::shared_ptr<T> new_data(...); std::unique_ptr<node> p(new node);
push(t, v) ==
  /\ Enter(t, "push", "push_lock")
  /\ new_data' = [new_data EXCEPT ![t] = v]
  /\ nextId' = nextId + 1
  /\ p' = [p EXCEPT ![t] = nextId + 1]
  /\ nodes' = nodes @@ ((nextId + 1) :> EmptyNode)
  /\ UNCHANGED <<head, tail, head_mutex, tail_mutex, waiters>>
  /\ UNCHANGED <<role, tl, old_head, value, ret, svars, results, pushed, popped, handed, absq>>
  /\ UNCHANGED cvars

\* std::lock_guard<std::mutex> tail_lock(tail_mutex);
PushLock(t) ==
  /\ pc[t] = "push_lock"
  /\ tail_mutex = NoThread
  /\ tail_mutex' = t
  /\ Goto(t, "push_data")
  /\ UNCHANGED <<nodes, nextId, head, tail, head_mutex, waiters>>
  /\ UNCHANGED <<role, op, calls, new_data, p, tl, old_head, value, ret>>
  /\ UNCHANGED <<svars, results, hvars>>
  /\ UNCHANGED cvars

\* mutant: the payload is written into the new node, not into the dummy
PushData_IntoNewNode(t) ==
  /\ pc[t] = "push_data"
  /\ nodes' = [nodes EXCEPT ![p[t]].data = new_data[t]]
  /\ Goto(t, "push_link")
  /\ UNCHANGED <<nextId, head, tail, head_mutex, tail_mutex, waiters>>
  /\ UNCHANGED <<role, op, calls, new_data, p, tl, old_head, value, ret>>
  /\ UNCHANGED <<svars, results, hvars>>
  /\ UNCHANGED cvars

\* tail->data = new_data;
PushData(t) ==
  /\ pc[t] = "push_data"
  /\ nodes' = [nodes EXCEPT ![tail].data = new_data[t]]
  /\ Goto(t, "push_link")
  /\ UNCHANGED <<nextId, head, tail, head_mutex, tail_mutex, waiters>>
  /\ UNCHANGED <<role, op, calls, new_data, p, tl, old_head, value, ret>>
  /\ UNCHANGED <<svars, results, hvars>>
  /\ UNCHANGED cvars

\* mutant: the new node is not linked behind the old tail
PushLink_NoLink(t) ==
  /\ pc[t] = "push_link"
  /\ Goto(t, "push_tail")
  /\ UNCHANGED <<qvars, role, op, calls, new_data, p, tl, old_head, value, ret>>
  /\ UNCHANGED <<svars, results, hvars, cvars>>

\* node* const new_tail = p.get(); tail->next = std::move(p);
PushLink(t) ==
  /\ pc[t] = "push_link"
  /\ nodes' = [nodes EXCEPT ![tail].next = p[t]]
  /\ Goto(t, "push_tail")
  /\ UNCHANGED <<nextId, head, tail, head_mutex, tail_mutex, waiters>>
  /\ UNCHANGED <<role, op, calls, new_data, p, tl, old_head, value, ret>>
  /\ UNCHANGED <<svars, results, hvars>>
  /\ UNCHANGED cvars

\* tail = new_tail;   (the push takes effect)
PushTail(t) ==
  /\ pc[t] = "push_tail"
  /\ tail' = p[t]
  /\ pushed' = Append(pushed, new_data[t])
  /\ absq' = Append(absq, new_data[t])
  /\ Goto(t, "push_unlock")
  /\ UNCHANGED <<nodes, nextId, head, head_mutex, tail_mutex, waiters>>
  /\ UNCHANGED <<role, op, calls, new_data, p, tl, old_head, value, ret>>
  /\ UNCHANGED <<svars, results, popped, handed, lin>>
  /\ UNCHANGED cvars

\* the closing brace of the tail_lock scope
PushUnlock(t) ==
  /\ pc[t] = "push_unlock"
  /\ tail_mutex' = NoThread
  /\ Goto(t, "push_notify")
  /\ UNCHANGED <<nodes, nextId, head, tail, head_mutex, waiters>>
  /\ UNCHANGED <<role, op, calls, new_data, p, tl, old_head, value, ret>>
  /\ UNCHANGED <<svars, results, hvars>>
  /\ UNCHANGED cvars

\* mutant: data_cond.notify_all() in place of notify_one()
PushNotify_All(t) ==
  /\ pc[t] = "push_notify"
  /\ waiters' = {}
  /\ pc' = [u \in DOMAIN pc |->
             IF u = t THEN "returned"
             ELSE IF u \in waiters THEN "wait_lock" ELSE pc[u]]
  /\ ret' = [ret EXCEPT ![t] = Result("push", TRUE, NoData)]
  /\ new_data' = [new_data EXCEPT ![t] = NoData]
  /\ p' = [p EXCEPT ![t] = NullPtr]
  /\ UNCHANGED <<nodes, nextId, head, tail, head_mutex, tail_mutex>>
  /\ UNCHANGED <<role, op, calls, tl, old_head, value>>
  /\ UNCHANGED <<svars, results, hvars, cvars>>

\* data_cond.notify_one(): wakes one thread blocked in wait, if there is one;
\* the woken thread has to re-acquire head_mutex inside wait
PushNotify(t) ==
  /\ pc[t] = "push_notify"
  /\ \/ /\ waiters = {}
        /\ pc' = [pc EXCEPT ![t] = "returned"]
        /\ UNCHANGED waiters
     \/ \E w \in waiters :
          /\ waiters' = waiters \ {w}
          /\ pc' = [pc EXCEPT ![t] = "returned", ![w] = "wait_lock"]
  /\ ret' = [ret EXCEPT ![t] = Result("push", TRUE, NoData)]
  /\ new_data' = [new_data EXCEPT ![t] = NoData]
  /\ p' = [p EXCEPT ![t] = NullPtr]
  /\ UNCHANGED <<nodes, nextId, head, tail, head_mutex, tail_mutex>>
  /\ UNCHANGED <<role, op, calls, tl, old_head, value>>
  /\ UNCHANGED <<svars, results, hvars>>
  /\ UNCHANGED cvars

(***************************************************************************)
(* threadsafe_queue::get_tail, called with head_mutex held                 *)
(***************************************************************************)
\* std::lock_guard<std::mutex> tail_lock(tail_mutex);
GetTailLock(t) ==
  /\ pc[t] = "gt_lock"
  /\ tail_mutex = NoThread
  /\ tail_mutex' = t
  /\ Goto(t, "gt_ret")
  /\ UNCHANGED <<nodes, nextId, head, tail, head_mutex, waiters>>
  /\ UNCHANGED <<role, op, calls, new_data, p, tl, old_head, value, ret>>
  /\ UNCHANGED <<svars, results, hvars>>
  /\ UNCHANGED cvars

\* where the caller of get_tail continues
AfterGetTail(o) ==
  CASE o = "empty" -> "empty_cmp"
    [] o \in {"try_pop", "try_pop_ref"} -> "try_cmp"
    [] OTHER -> "wait_pred"

\* mutant: get_tail returns without releasing tail_mutex
GetTailReturn_KeepLock(t) ==
  /\ pc[t] = "gt_ret"
  /\ tl' = [tl EXCEPT ![t] = tail]
  /\ lin' = [lin EXCEPT ![t].empty = (absq = <<>>)]
  /\ Goto(t, AfterGetTail(op[t]))
  /\ UNCHANGED <<nodes, nextId, head, tail, head_mutex, tail_mutex, waiters>>
  /\ UNCHANGED <<role, op, calls, new_data, p, old_head, value, ret>>
  /\ UNCHANGED <<svars, results, pushed, popped, handed, absq>>
  /\ UNCHANGED cvars

\* return tail;   (and the lock_guard releases tail_mutex)
GetTailReturn(t) ==
  /\ pc[t] = "gt_ret"
  /\ tl' = [tl EXCEPT ![t] = tail]
  /\ tail_mutex' = NoThread
  /\ lin' = [lin EXCEPT ![t].empty = (absq = <<>>)]
  /\ Goto(t, AfterGetTail(op[t]))
  /\ UNCHANGED <<nodes, nextId, head, tail, head_mutex, waiters>>
  /\ UNCHANGED <<role, op, calls, new_data, p, old_head, value, ret>>
  /\ UNCHANGED <<svars, results, pushed, popped, handed, absq>>
  /\ UNCHANGED cvars

(***************************************************************************)
(* threadsafe_queue::try_pop_head, both overloads                          *)
(***************************************************************************)
RefOps == {"try_pop_ref", "wait_and_pop_ref"}
TryOps == {"try_pop", "try_pop_ref"}
WaitOps == {"wait_and_pop", "wait_and_pop_ref"}

\* the entry of try_pop_head / try_pop_head(T&)
try_pop(t, o) ==
  /\ Enter(t, o, "try_lock")
  /\ UNCHANGED <<qvars, role, new_data, p, tl, old_head, value, ret>>
  /\ UNCHANGED <<svars, results, pushed, popped, handed, absq>>
  /\ UNCHANGED cvars

\* std::lock_guard<std::mutex> head_lock(head_mutex);  then get_tail()
TryPopLock(t) ==
  /\ pc[t] = "try_lock"
  /\ head_mutex = NoThread
  /\ head_mutex' = t
  /\ Goto(t, "gt_lock")
  /\ UNCHANGED <<nodes, nextId, head, tail, tail_mutex, waiters>>
  /\ UNCHANGED <<role, op, calls, new_data, p, tl, old_head, value, ret>>
  /\ UNCHANGED <<svars, results, hvars>>
  /\ UNCHANGED cvars

\* where a removal continues once head != tail is known
Removal(o) == IF o \in RefOps THEN "copy_value" ELSE "pop_move"

\* mutant: the emptiness check is missing
TryPopCheck_NoCheck(t) ==
  /\ pc[t] = "try_cmp"
  /\ Goto(t, Removal(op[t]))
  /\ UNCHANGED <<qvars, role, op, calls, new_data, p, tl, old_head, value, ret>>
  /\ UNCHANGED <<svars, results, hvars>>
  /\ UNCHANGED cvars

\* mutant: on an empty queue try_pop_head waits on the condition variable
TryPopCheck_Wait(t) ==
  /\ pc[t] = "try_cmp"
  /\ IF head = tl[t]
       THEN /\ head_mutex' = NoThread
            /\ waiters' = waiters \cup {t}
            /\ Goto(t, "wait_sleep")
       ELSE /\ Goto(t, Removal(op[t]))
            /\ UNCHANGED <<head_mutex, waiters>>
  /\ UNCHANGED <<nodes, nextId, head, tail, tail_mutex>>
  /\ UNCHANGED <<role, op, calls, new_data, p, tl, old_head, value, ret>>
  /\ UNCHANGED <<svars, results, hvars, cvars>>

\* mutant: on the empty path try_pop_head(T&) resets the caller's value
TryPopCheck_Clobber(t) ==
  /\ pc[t] = "try_cmp"
  /\ IF head = tl[t]
       THEN /\ old_head' = [old_head EXCEPT ![t] = NullPtr]
            /\ value' = [value EXCEPT ![t] = NoData]
            /\ Goto(t, "pop_unlock")
       ELSE /\ Goto(t, Removal(op[t]))
            /\ UNCHANGED <<old_head, value>>
  /\ UNCHANGED <<qvars, role, op, calls, new_data, p, tl, ret>>
  /\ UNCHANGED <<svars, results, hvars, cvars>>

\* mutant: the comparison of head with get_tail() is negated
TryPopCheck_Negated(t) ==
  /\ pc[t] = "try_cmp"
  /\ IF head # tl[t]
       THEN /\ old_head' = [old_head EXCEPT ![t] = NullPtr]
            /\ Goto(t, "pop_unlock")
       ELSE /\ Goto(t, Removal(op[t]))
            /\ UNCHANGED old_head
  /\ UNCHANGED <<qvars, role, op, calls, new_data, p, tl, value, ret>>
  /\ UNCHANGED <<svars, results, hvars, cvars>>

\* if (head.get() == get_tail()) return nullptr;
TryPopCheck(t) ==
  /\ pc[t] = "try_cmp"
  /\ IF head = tl[t]
       THEN /\ old_head' = [old_head EXCEPT ![t] = NullPtr]
            /\ Goto(t, "pop_unlock")
       ELSE /\ Goto(t, Removal(op[t]))
            /\ UNCHANGED old_head
  /\ UNCHANGED <<qvars, role, op, calls, new_data, p, tl, value, ret>>
  /\ UNCHANGED <<svars, results, hvars>>
  /\ UNCHANGED cvars

\* mutant: the payload is copied from the node tail references
CopyValue_FromTail(t) ==
  /\ pc[t] = "copy_value"
  /\ value' = [value EXCEPT ![t] = nodes[tail].data]
  /\ Goto(t, "pop_move")
  /\ UNCHANGED <<qvars, role, op, calls, new_data, p, tl, old_head, ret>>
  /\ UNCHANGED <<svars, results, hvars>>
  /\ UNCHANGED cvars

\* mutant: the payload is copied from the successor of head
CopyValue_FromNext(t) ==
  /\ pc[t] = "copy_value"
  /\ value' = [value EXCEPT ![t] = nodes[nodes[head].next].data]
  /\ Goto(t, "pop_move")
  /\ UNCHANGED <<qvars, role, op, calls, new_data, p, tl, old_head, ret>>
  /\ UNCHANGED <<svars, results, hvars, cvars>>

\* value = std::move(*head->data);
CopyValue(t) ==
  /\ pc[t] = "copy_value"
  /\ value' = [value EXCEPT ![t] = nodes[head].data]
  /\ Goto(t, "pop_move")
  /\ UNCHANGED <<qvars, role, op, calls, new_data, p, tl, old_head, ret>>
  /\ UNCHANGED <<svars, results, hvars>>
  /\ UNCHANGED cvars

(***************************************************************************)
(* threadsafe_queue::pop_head                                              *)
(***************************************************************************)
\* std::unique_ptr<node> old_head = std::move(head);
PopHeadMove(t) ==
  /\ pc[t] = "pop_move"
  /\ old_head' = [old_head EXCEPT ![t] = head]
  /\ head' = NullPtr
  /\ Goto(t, "pop_adv")
  /\ UNCHANGED <<nodes, nextId, tail, head_mutex, tail_mutex, waiters>>
  /\ UNCHANGED <<role, op, calls, new_data, p, tl, value, ret>>
  /\ UNCHANGED <<svars, results, hvars>>
  /\ UNCHANGED cvars

\* head = std::move(old_head->next);   (the removal takes effect)
PopHeadAdvance(t) ==
  /\ pc[t] = "pop_adv"
  /\ head' = nodes[old_head[t]].next
  /\ nodes' = [nodes EXCEPT ![old_head[t]].next = NullPtr]
  /\ popped' = Append(popped, nodes[old_head[t]].data)
  /\ lin' = [lin EXCEPT ![t] =
               [empty |-> absq = <<>>,
                val |-> IF absq = <<>> THEN NoData ELSE Head(absq),
                k |-> Len(popped) + 1,
                arg |-> lin[t].arg]]
  /\ absq' = IF absq = <<>> THEN absq ELSE Tail(absq)
  /\ Goto(t, "pop_unlock")
  /\ UNCHANGED <<nextId, tail, head_mutex, tail_mutex, waiters>>
  /\ UNCHANGED <<role, op, calls, new_data, p, tl, old_head, value, ret>>
  /\ UNCHANGED <<svars, results, pushed, handed>>
  /\ UNCHANGED cvars

\* the head_lock of try_pop_head / wait_pop_head goes out of scope
PopUnlock(t) ==
  /\ pc[t] = "pop_unlock"
  /\ head_mutex' = NoThread
  /\ Goto(t, "pop_ret")
  /\ UNCHANGED <<nodes, nextId, head, tail, tail_mutex, waiters>>
  /\ UNCHANGED <<role, op, calls, new_data, p, tl, old_head, value, ret>>
  /\ UNCHANGED <<svars, results, hvars>>
  /\ UNCHANGED cvars

\* what try_pop / wait_and_pop hand back from the removed node old_head
PopResult(o, oh) ==
  CASE o = "try_pop" ->
         Result(o, oh # NullPtr, IF oh # NullPtr THEN nodes[oh].data ELSE NoData)
    [] o = "try_pop_ref" -> Result(o, oh # NullPtr, NoData)
    [] o = "wait_and_pop" -> Result(o, TRUE, nodes[oh].data)
    [] OTHER -> Result(o, TRUE, NoData)

\* the payload the caller holds after a call that removed node oh
Handed(t, o, oh) == IF o \in RefOps THEN value[t] ELSE nodes[oh].data

\* the return statement of try_pop / wait_and_pop; old_head is destroyed
PopReturn(t) ==
  /\ pc[t] = "pop_ret"
  /\ ret' = [ret EXCEPT ![t] = PopResult(op[t], old_head[t])]
  /\ handed' = IF old_head[t] # NullPtr
                 THEN Append(handed, Handed(t, op[t], old_head[t]))
                 ELSE handed
  /\ nodes' = [n \in DOMAIN nodes \ {old_head[t]} |-> nodes[n]]
  /\ old_head' = [old_head EXCEPT ![t] = NullPtr]
  /\ tl' = [tl EXCEPT ![t] = NullPtr]
  /\ Goto(t, "returned")
  /\ UNCHANGED <<nextId, head, tail, head_mutex, tail_mutex, waiters>>
  /\ UNCHANGED <<role, op, calls, new_data, p, value>>
  /\ UNCHANGED <<svars, results, pushed, popped, absq, lin>>
  /\ UNCHANGED cvars

(***************************************************************************)
(* threadsafe_queue::wait_for_data / wait_pop_head, both overloads         *)
(***************************************************************************)
\* the entry of wait_pop_head / wait_pop_head(T&)
wait_and_pop(t, o) ==
  /\ Enter(t, o, "wait_lock")
  /\ UNCHANGED <<qvars, role, new_data, p, tl, old_head, value, ret>>
  /\ UNCHANGED <<svars, results, pushed, popped, handed, absq>>
  /\ UNCHANGED cvars

\* std::unique_lock<std::mutex> head_lock(head_mutex); and the re-acquisition
\* of head_mutex inside data_cond.wait after a wake-up; then the predicate
WaitLock(t) ==
  /\ pc[t] = "wait_lock"
  /\ head_mutex = NoThread
  /\ head_mutex' = t
  /\ Goto(t, "gt_lock")
  /\ UNCHANGED <<nodes, nextId, head, tail, tail_mutex, waiters>>
  /\ UNCHANGED <<role, op, calls, new_data, p, tl, old_head, value, ret>>
  /\ UNCHANGED <<svars, results, hvars>>
  /\ UNCHANGED cvars

\* mutant: the thread goes to sleep without releasing head_mutex
WaitPred_KeepLock(t) ==
  /\ pc[t] = "wait_pred"
  /\ IF head # tl[t]
       THEN /\ Goto(t, Removal(op[t]))
            /\ UNCHANGED waiters
       ELSE /\ waiters' = waiters \cup {t}
            /\ Goto(t, "wait_sleep")
  /\ UNCHANGED <<nodes, nextId, head, tail, head_mutex, tail_mutex>>
  /\ UNCHANGED <<role, op, calls, new_data, p, tl, old_head, value, ret>>
  /\ UNCHANGED <<svars, results, hvars>>
  /\ UNCHANGED cvars

\* mutant: wait returns without looking at the predicate
WaitPred_NoPredicate(t) ==
  /\ pc[t] = "wait_pred"
  /\ Goto(t, Removal(op[t]))
  /\ UNCHANGED <<qvars, role, op, calls, new_data, p, tl, old_head, value, ret>>
  /\ UNCHANGED <<svars, results, hvars, cvars>>

\* data_cond.wait(head_lock, [&] { return head.get() != get_tail(); }):
\* with the predicate true wait returns; with the predicate false the thread
\* releases head_mutex and blocks, in one atomic step
WaitPred(t) ==
  /\ pc[t] = "wait_pred"
  /\ IF head # tl[t]
       THEN /\ Goto(t, Removal(op[t]))
            /\ UNCHANGED <<head_mutex, waiters>>
       ELSE /\ head_mutex' = NoThread
            /\ waiters' = waiters \cup {t}
            /\ Goto(t, "wait_sleep")
  /\ UNCHANGED <<nodes, nextId, head, tail, tail_mutex>>
  /\ UNCHANGED <<role, op, calls, new_data, p, tl, old_head, value, ret>>
  /\ UNCHANGED <<svars, results, hvars>>
  /\ UNCHANGED cvars

\* a spurious wake-up of a thread blocked in data_cond.wait
SpuriousWakeup(t) ==
  /\ t \in waiters
  /\ waiters' = waiters \ {t}
  /\ Goto(t, "wait_lock")
  /\ UNCHANGED <<nodes, nextId, head, tail, head_mutex, tail_mutex>>
  /\ UNCHANGED <<role, op, calls, new_data, p, tl, old_head, value, ret>>
  /\ UNCHANGED <<svars, results, hvars>>
  /\ UNCHANGED cvars

(***************************************************************************)
(* threadsafe_queue::empty                                                 *)
(***************************************************************************)
empty(t) ==
  /\ Enter(t, "empty", "empty_lock")
  /\ UNCHANGED <<qvars, role, new_data, p, tl, old_head, value, ret>>
  /\ UNCHANGED <<svars, results, pushed, popped, handed, absq>>
  /\ UNCHANGED cvars

\* std::lock_guard<std::mutex> head_lock(head_mutex);  then get_tail()
EmptyLock(t) ==
  /\ pc[t] = "empty_lock"
  /\ head_mutex = NoThread
  /\ head_mutex' = t
  /\ Goto(t, "gt_lock")
  /\ UNCHANGED <<nodes, nextId, head, tail, tail_mutex, waiters>>
  /\ UNCHANGED <<role, op, calls, new_data, p, tl, old_head, value, ret>>
  /\ UNCHANGED <<svars, results, hvars>>
  /\ UNCHANGED cvars

\* mutant: the comparison is negated
EmptyReturn_Negated(t) ==
  /\ pc[t] = "empty_cmp"
  /\ ret' = [ret EXCEPT ![t] = Result("empty", head # tl[t], NoData)]
  /\ head_mutex' = NoThread
  /\ tl' = [tl EXCEPT ![t] = NullPtr]
  /\ Goto(t, "returned")
  /\ UNCHANGED <<nodes, nextId, head, tail, tail_mutex, waiters>>
  /\ UNCHANGED <<role, op, calls, new_data, p, old_head, value>>
  /\ UNCHANGED <<svars, results, hvars>>
  /\ UNCHANGED cvars

\* mutant: empty() answers true whatever head and tail are
EmptyReturn_True(t) ==
  /\ pc[t] = "empty_cmp"
  /\ ret' = [ret EXCEPT ![t] = Result("empty", TRUE, NoData)]
  /\ head_mutex' = NoThread
  /\ tl' = [tl EXCEPT ![t] = NullPtr]
  /\ Goto(t, "returned")
  /\ UNCHANGED <<nodes, nextId, head, tail, tail_mutex, waiters>>
  /\ UNCHANGED <<role, op, calls, new_data, p, old_head, value>>
  /\ UNCHANGED <<svars, results, hvars, cvars>>

\* return (head.get() == get_tail());   (and head_lock is released)
EmptyReturn(t) ==
  /\ pc[t] = "empty_cmp"
  /\ ret' = [ret EXCEPT ![t] = Result("empty", head = tl[t], NoData)]
  /\ head_mutex' = NoThread
  /\ tl' = [tl EXCEPT ![t] = NullPtr]
  /\ Goto(t, "returned")
  /\ UNCHANGED <<nodes, nextId, head, tail, tail_mutex, waiters>>
  /\ UNCHANGED <<role, op, calls, new_data, p, old_head, value>>
  /\ UNCHANGED <<svars, results, hvars>>
  /\ UNCHANGED cvars

(***************************************************************************)
(* The steps inside the queue's operations.                                *)
(***************************************************************************)
PushStep(t) ==
  \/ PushLock(t) \/ PushData(t) \/ PushLink(t)
  \/ PushTail(t) \/ PushUnlock(t) \/ PushNotify(t)

GetTailStep(t) == GetTailLock(t) \/ GetTailReturn(t)

PopStep(t) == PopHeadMove(t) \/ PopHeadAdvance(t) \/ PopUnlock(t) \/ PopReturn(t)

(***************************************************************************)
(* Spec: a free mix.  Every thread calls, MaxCalls times, any of the six   *)
(* public operations of the queue; blocked waiters may wake spuriously.    *)
(***************************************************************************)
RECURSIVE SumCalls(_)
SumCalls(T) ==
  IF T = {} THEN 0
  ELSE LET t == CHOOSE x \in T : TRUE IN calls[t] + SumCalls(T \ {t})

\* the calls a thread of each role still has
Budget(t) ==
  CASE role[t] = "any" -> SumCalls(Threads) < MaxCalls
    [] role[t] = "single_producer" -> calls[t] < FifoPushes
    [] role[t] = "single_consumer" -> calls[t] < FifoPushes + 1
    [] OTHER -> FALSE

\* the operations a thread of each role calls
Calls(r) ==
  CASE r = "any" -> {"push", "try_pop", "try_pop_ref", "wait_and_pop",
                     "wait_and_pop_ref", "empty"}
    [] r = "single_producer" -> {"push"}
    [] r = "single_consumer" -> {"try_pop", "try_pop_ref", "wait_and_pop",
                                 "wait_and_pop_ref"}
    [] OTHER -> {}

\* the payloads a thread of each role pushes next: the single producer
\* pushes 1, 2, ...; in the free mix the k-th push call of the run pushes k,
\* so that all payloads are distinct
PushValues(t) ==
  IF role[t] = "single_producer" THEN {calls[t] + 1} ELSE {nextId}

MayCall(t, o) == Idle(t) /\ o \in Calls(role[t]) /\ Budget(t)

CallPush(t) == MayCall(t, "push") /\ \E v \in PushValues(t) : push(t, v)
CallTryPop(t) == MayCall(t, "try_pop") /\ try_pop(t, "try_pop")
CallTryPopRef(t) == MayCall(t, "try_pop_ref") /\ try_pop(t, "try_pop_ref")
CallWaitAndPop(t) ==
  MayCall(t, "wait_and_pop") /\ wait_and_pop(t, "wait_and_pop")
CallWaitAndPopRef(t) ==
  MayCall(t, "wait_and_pop_ref") /\ wait_and_pop(t, "wait_and_pop_ref")
CallEmpty(t) == MayCall(t, "empty") /\ empty(t)

Init ==
  /\ QueueInit
  /\ ThreadInit(Threads, [t \in Threads |-> "any"])
  /\ StackInit
  /\ HistoryInit
  /\ CopyInit
  /\ results = {}

Next ==
  \E t \in Threads :
    \/ CallPush(t) \/ CallTryPop(t) \/ CallTryPopRef(t)
    \/ CallWaitAndPop(t) \/ CallWaitAndPopRef(t) \/ CallEmpty(t)
    \/ PushStep(t) \/ GetTailStep(t)
    \/ TryPopLock(t) \/ TryPopCheck(t) \/ CopyValue(t) \/ PopStep(t)
    \/ WaitLock(t) \/ WaitPred(t) \/ SpuriousWakeup(t)
    \/ EmptyLock(t) \/ EmptyReturn(t)

Spec == Init /\ [][Next]_vars

(***************************************************************************)
(* SpecPC: the producer/consumer run of test_concurrent_operations.        *)
(* Producer id pushes id * ItemsPerProducer + i for i = 0, 1, ...; every   *)
(* consumer calls wait_and_pop(item) its share of times and inserts item   *)
(* into results.  No spurious wake-ups happen in this run.                 *)
(***************************************************************************)
PCThreads == Producers \cup Consumers

\* num_producers * items_per_producer / num_consumers
ItemsPerConsumer ==
  (Cardinality(Producers) * ItemsPerProducer) \div Cardinality(Consumers)

\* for (i...) { int value = id * items_per_producer + i; queue.push(value); }
Producer(t) ==
  /\ role[t] = "producer"
  /\ Idle(t)
  /\ calls[t] < ItemsPerProducer
  /\ push(t, t * ItemsPerProducer + calls[t])

\* for (i...) { int item; queue.wait_and_pop(item); ... }
Consumer(t) ==
  /\ role[t] = "consumer"
  /\ pc[t] = "idle"
  /\ calls[t] < ItemsPerConsumer
  /\ wait_and_pop(t, "wait_and_pop_ref")

\* std::lock_guard<std::mutex> lock(results_mutex); results.insert(item);
ConsumerInsert(t) ==
  /\ role[t] = "consumer"
  /\ pc[t] = "returned"
  /\ results' = results \cup {value[t]}
  /\ Goto(t, "idle")
  /\ UNCHANGED <<qvars, role, op, calls, new_data, p, tl, old_head, value, ret>>
  /\ UNCHANGED <<svars, hvars>>
  /\ UNCHANGED cvars

InitPC ==
  /\ QueueInit
  /\ ThreadInit(PCThreads,
                [t \in PCThreads |->
                   IF t \in Producers THEN "producer" ELSE "consumer"])
  /\ StackInit
  /\ HistoryInit
  /\ CopyInit
  /\ results = {}

NextPC ==
  \E t \in PCThreads :
    \/ Producer(t) \/ Consumer(t) \/ ConsumerInsert(t)
    \/ PushStep(t) \/ GetTailStep(t)
    \/ WaitLock(t) \/ WaitPred(t) \/ CopyValue(t) \/ PopStep(t)

SpecPC == InitPC /\ [][NextPC]_vars

(***************************************************************************)
(* SpecFifo: one producer pushing 1, 2, ..., FifoPushes and one consumer   *)
(* calling any of the four removing operations, concurrently.              *)
(***************************************************************************)
FifoThreads == {0, 1}

InitFifo ==
  /\ QueueInit
  /\ ThreadInit(FifoThreads,
                [t \in FifoThreads |->
                   IF t = 0 THEN "single_producer" ELSE "single_consumer"])
  /\ StackInit
  /\ HistoryInit
  /\ CopyInit
  /\ results = {}

NextFifo ==
  \E t \in FifoThreads :
    \/ CallPush(t) \/ CallTryPop(t) \/ CallTryPopRef(t)
    \/ CallWaitAndPop(t) \/ CallWaitAndPopRef(t)
    \/ PushStep(t) \/ GetTailStep(t)
    \/ TryPopLock(t) \/ TryPopCheck(t) \/ CopyValue(t) \/ PopStep(t)
    \/ WaitLock(t) \/ WaitPred(t)

SpecFifo == InitFifo /\ [][NextFifo]_vars

(***************************************************************************)
(* threadsafe_stack::push                                                  *)
(***************************************************************************)
StackPops == {"stack_pop", "stack_pop_ref"}

\* the entry of push(T new_value)
stack_push(t, v) ==
  /\ Enter(t, "stack_push", "s_push_lock")
  /\ new_data' = [new_data EXCEPT ![t] = v]
  /\ UNCHANGED <<qvars, role, p, tl, old_head, value, ret>>
  /\ UNCHANGED <<svars, results, pushed, popped, handed, absq>>
  /\ UNCHANGED cvars

\* std::lock_guard<std::mutex> lock(m);
StackPushLock(t) ==
  /\ pc[t] = "s_push_lock"
  /\ m = NoThread
  /\ m' = t
  /\ Goto(t, "s_push_body")
  /\ UNCHANGED <<qvars, role, op, calls, new_data, p, tl, old_head, value, ret>>
  /\ UNCHANGED <<data, res, results, hvars>>
  /\ UNCHANGED cvars

\* data.push(std::move(new_value));
StackPushBody(t) ==
  /\ pc[t] = "s_push_body"
  /\ data' = Append(data, new_data[t])
  /\ pushed' = Append(pushed, new_data[t])
  /\ Goto(t, "s_push_unlock")
  /\ UNCHANGED <<qvars, role, op, calls, new_data, p, tl, old_head, value, ret>>
  /\ UNCHANGED <<m, res, results, popped, handed, absq, lin>>
  /\ UNCHANGED cvars

\* the end of push: the lock_guard releases m
StackPushUnlock(t) ==
  /\ pc[t] = "s_push_unlock"
  /\ m' = NoThread
  /\ ret' = [ret EXCEPT ![t] = Result("stack_push", TRUE, NoData)]
  /\ new_data' = [new_data EXCEPT ![t] = NoData]
  /\ Goto(t, "returned")
  /\ UNCHANGED <<qvars, role, op, calls, p, tl, old_head, value>>
  /\ UNCHANGED <<data, res, results, hvars>>
  /\ UNCHANGED cvars

(***************************************************************************)
(* threadsafe_stack::pop, both overloads.  A result with ok = FALSE is     *)
(* the exception empty_stack leaving the call.                             *)
(***************************************************************************)
\* the entry of pop() / pop(T& value)
stack_pop(t, o) ==
  /\ Enter(t, o, "s_pop_lock")
  /\ UNCHANGED <<qvars, role, new_data, p, tl, old_head, value, ret>>
  /\ UNCHANGED <<svars, results, pushed, popped, handed, absq>>
  /\ UNCHANGED cvars

\* std::lock_guard<std::mutex> lock(m);
StackPopLock(t) ==
  /\ pc[t] = "s_pop_lock"
  /\ m = NoThread
  /\ m' = t
  /\ Goto(t, "s_pop_check")
  /\ UNCHANGED <<qvars, role, op, calls, new_data, p, tl, old_head, value, ret>>
  /\ UNCHANGED <<data, res, results, hvars>>
  /\ UNCHANGED cvars

\* mutant: the emptiness check is missing
StackPopCheck_NoCheck(t) ==
  /\ pc[t] = "s_pop_check"
  /\ Goto(t, "s_pop_top")
  /\ UNCHANGED <<qvars, role, op, calls, new_data, p, tl, old_head, value, ret>>
  /\ UNCHANGED <<svars, results, hvars>>
  /\ UNCHANGED cvars

\* if (data.empty()) throw empty_stack();   (unwinding releases m)
StackPopCheck(t) ==
  /\ pc[t] = "s_pop_check"
  /\ IF data = <<>>
       THEN /\ m' = NoThread
            /\ ret' = [ret EXCEPT ![t] = Result(op[t], FALSE, NoData)]
            /\ Goto(t, "returned")
       ELSE /\ Goto(t, "s_pop_top")
            /\ UNCHANGED <<m, ret>>
  /\ UNCHANGED <<qvars, role, op, calls, new_data, p, tl, old_head, value>>
  /\ UNCHANGED <<data, res, results, hvars>>
  /\ UNCHANGED cvars

\* mutant: the oldest element is read instead of the top
StackPopTop_Front(t) ==
  /\ pc[t] = "s_pop_top"
  /\ IF op[t] = "stack_pop_ref"
       THEN /\ value' = [value EXCEPT ![t] = data[1]]
            /\ UNCHANGED res
       ELSE /\ res' = [res EXCEPT ![t] = data[1]]
            /\ UNCHANGED value
  /\ Goto(t, "s_pop_pop")
  /\ UNCHANGED <<qvars, role, op, calls, new_data, p, tl, old_head, ret>>
  /\ UNCHANGED <<data, m, results, hvars>>
  /\ UNCHANGED cvars

\* auto res = std::make_shared<T>(data.top());  /  value = data.top();
StackPopTop(t) ==
  /\ pc[t] = "s_pop_top"
  /\ IF op[t] = "stack_pop_ref"
       THEN /\ value' = [value EXCEPT ![t] = data[Len(data)]]
            /\ UNCHANGED res
       ELSE /\ res' = [res EXCEPT ![t] = data[Len(data)]]
            /\ UNCHANGED value
  /\ Goto(t, "s_pop_pop")
  /\ UNCHANGED <<qvars, role, op, calls, new_data, p, tl, old_head, ret>>
  /\ UNCHANGED <<data, m, results, hvars>>
  /\ UNCHANGED cvars

\* mutant: the top is not removed
StackPopPop_NoRemove(t) ==
  /\ pc[t] = "s_pop_pop"
  /\ popped' = Append(popped, data[Len(data)])
  /\ Goto(t, "s_pop_unlock")
  /\ UNCHANGED <<qvars, role, op, calls, new_data, p, tl, old_head, value, ret>>
  /\ UNCHANGED <<svars, results, pushed, handed, absq, lin>>
  /\ UNCHANGED cvars

\* data.pop();
StackPopPop(t) ==
  /\ pc[t] = "s_pop_pop"
  /\ data' = SubSeq(data, 1, Len(data) - 1)
  /\ popped' = Append(popped, data[Len(data)])
  /\ Goto(t, "s_pop_unlock")
  /\ UNCHANGED <<qvars, role, op, calls, new_data, p, tl, old_head, value, ret>>
  /\ UNCHANGED <<m, res, results, pushed, handed, absq, lin>>
  /\ UNCHANGED cvars

\* return res;  /  the end of pop(T&): the lock_guard releases m
StackPopUnlock(t) ==
  /\ pc[t] = "s_pop_unlock"
  /\ m' = NoThread
  /\ ret' = [ret EXCEPT ![t] = Result(op[t], TRUE, res[t])]
  /\ handed' = Append(handed,
                      IF op[t] = "stack_pop_ref" THEN value[t] ELSE res[t])
  /\ res' = [res EXCEPT ![t] = NoData]
  /\ Goto(t, "returned")
  /\ UNCHANGED <<qvars, role, op, calls, new_data, p, tl, old_head, value>>
  /\ UNCHANGED <<data, results, pushed, popped, absq, lin>>
  /\ UNCHANGED cvars

(***************************************************************************)
(* threadsafe_stack::empty                                                 *)
(***************************************************************************)
stack_empty(t) ==
  /\ Enter(t, "stack_empty", "s_empty_lock")
  /\ UNCHANGED <<qvars, role, new_data, p, tl, old_head, value, ret>>
  /\ UNCHANGED <<svars, results, pushed, popped, handed, absq>>
  /\ UNCHANGED cvars

\* mutant: empty() does not lock m
StackEmptyLock_NoLock(t) ==
  /\ pc[t] = "s_empty_lock"
  /\ Goto(t, "s_empty_ret")
  /\ UNCHANGED <<qvars, role, op, calls, new_data, p, tl, old_head, value, ret>>
  /\ UNCHANGED <<svars, results, hvars, cvars>>

\* std::lock_guard<std::mutex> lock(m);
StackEmptyLock(t) ==
  /\ pc[t] = "s_empty_lock"
  /\ m = NoThread
  /\ m' = t
  /\ Goto(t, "s_empty_ret")
  /\ UNCHANGED <<qvars, role, op, calls, new_data, p, tl, old_head, value, ret>>
  /\ UNCHANGED <<data, res, results, hvars>>
  /\ UNCHANGED cvars

\* return data.empty();   (and the lock_guard releases m)
StackEmptyReturn(t) ==
  /\ pc[t] = "s_empty_ret"
  /\ ret' = [ret EXCEPT ![t] = Result("stack_empty", data = <<>>, NoData)]
  /\ m' = NoThread
  /\ Goto(t, "returned")
  /\ UNCHANGED <<qvars, role, op, calls, new_data, p, tl, old_head, value>>
  /\ UNCHANGED <<data, res, results, hvars>>
  /\ UNCHANGED cvars

\* the steps inside the stack's operations
StackStep(t) ==
  \/ StackPushLock(t) \/ StackPushBody(t) \/ StackPushUnlock(t)
  \/ StackPopLock(t) \/ StackPopCheck(t) \/ StackPopTop(t)
  \/ StackPopPop(t) \/ StackPopUnlock(t)
  \/ StackEmptyLock(t) \/ StackEmptyReturn(t)

(***************************************************************************)
(* SpecStack: a free mix on the stack.  The threads call, MaxStackCalls    *)
(* times in total, any of push, pop(), pop(value) and empty.               *)
(***************************************************************************)
StackThreads == {0, 1, 2}
StackValues == {1, 2}

StackMayCall(t) ==
  role[t] = "stack_any" /\ Idle(t) /\ SumCalls(StackThreads) < MaxStackCalls

StackCallPush(t) == StackMayCall(t) /\ \E v \in StackValues : stack_push(t, v)
StackCallPop(t) == StackMayCall(t) /\ stack_pop(t, "stack_pop")
StackCallPopRef(t) == StackMayCall(t) /\ stack_pop(t, "stack_pop_ref")
StackCallEmpty(t) == StackMayCall(t) /\ stack_empty(t)

InitStack ==
  /\ QueueInit
  /\ ThreadInit(StackThreads, [t \in StackThreads |-> "stack_any"])
  /\ StackInit
  /\ HistoryInit
  /\ CopyInit
  /\ results = <<>>

NextStack ==
  \E t \in StackThreads :
    \/ StackCallPush(t) \/ StackCallPop(t) \/ StackCallPopRef(t)
    \/ StackCallEmpty(t) \/ StackStep(t)

SpecStack == InitStack /\ [][NextStack]_vars

(***************************************************************************)
(* SpecStackSeq: one thread pushes a1, ..., an (n <= MaxSeqLen) on the     *)
(* empty stack, then pops n times with either overload, then calls empty,  *)
(* as test_sequential_operations does for 1, 2, 3.                         *)
(***************************************************************************)
SeqThreads == {0}

\* stack.push(1); stack.push(2); stack.push(3);
SeqPush(t) ==
  /\ role[t] = "seq_push"
  /\ Idle(t)
  /\ calls[t] < MaxSeqLen
  /\ \E v \in StackValues : stack_push(t, v)

\* the pushes are over
SeqPushed(t) ==
  /\ role[t] = "seq_push"
  /\ Idle(t)
  /\ role' = [role EXCEPT ![t] = "seq_pop"]
  /\ UNCHANGED <<qvars, pc, op, calls, new_data, p, tl, old_head, value, ret>>
  /\ UNCHANGED <<svars, results, hvars>>
  /\ UNCHANGED cvars

\* stack.pop(value);   as many times as there were pushes
SeqPop(t) ==
  /\ role[t] = "seq_pop"
  /\ Idle(t)
  /\ calls[t] < 2 * Len(pushed)
  /\ \E o \in StackPops : stack_pop(t, o)

\* assert(stack.empty());
SeqEmpty(t) ==
  /\ role[t] = "seq_pop"
  /\ Idle(t)
  /\ calls[t] = 2 * Len(pushed)
  /\ stack_empty(t)

InitStackSeq ==
  /\ QueueInit
  /\ ThreadInit(SeqThreads, [t \in SeqThreads |-> "seq_push"])
  /\ StackInit
  /\ HistoryInit
  /\ CopyInit
  /\ results = <<>>

NextStackSeq ==
  \E t \in SeqThreads :
    \/ SeqPush(t) \/ SeqPushed(t) \/ SeqPop(t) \/ SeqEmpty(t) \/ StackStep(t)

SpecStackSeq == InitStackSeq /\ [][NextStackSeq]_vars

(***************************************************************************)
(* SpecStackTest: test_concurrent_operations of the stack.  Thread i       *)
(* pushes i * items_per_thread, ..., (i + 1) * items_per_thread - 1; when  *)
(* all pushing threads are joined, as many threads pop items_per_thread    *)
(* times each, appending what they get to results and ignoring             *)
(* empty_stack.                                                            *)
(***************************************************************************)
StackWorkers == {0, 1}

\* concurrent_push: for (i = start; i < end; ++i) stack.push(i);
Pusher(t) ==
  /\ role[t] = "pusher"
  /\ Idle(t)
  /\ calls[t] < StackItemsPerThread
  /\ stack_push(t, t * StackItemsPerThread + calls[t])

\* thread.join() of every pushing thread, threads.clear(), and the start of
\* the popping threads
JoinPushers ==
  /\ \A t \in StackWorkers :
       role[t] = "pusher" /\ Idle(t) /\ calls[t] = StackItemsPerThread
  /\ role' = [t \in StackWorkers |-> "popper"]
  /\ calls' = [t \in StackWorkers |-> 0]
  /\ pc' = [t \in StackWorkers |-> "idle"]
  /\ UNCHANGED <<qvars, op, new_data, p, tl, old_head, value, ret>>
  /\ UNCHANGED <<svars, results, hvars>>
  /\ UNCHANGED cvars

\* concurrent_pop: for (i = 0; i < count; ++i) { try { auto value = stack.pop();
Popper(t) ==
  /\ role[t] = "popper"
  /\ pc[t] = "idle"
  /\ calls[t] < StackItemsPerThread
  /\ stack_pop(t, "stack_pop")

\* results.push_back(*value); } catch (const empty_stack&) { } }
PopperRecord(t) ==
  /\ role[t] = "popper"
  /\ pc[t] = "returned"
  /\ results' = IF ret[t].ok THEN Append(results, ret[t].val) ELSE results
  /\ Goto(t, "idle")
  /\ UNCHANGED <<qvars, role, op, calls, new_data, p, tl, old_head, value, ret>>
  /\ UNCHANGED <<svars, hvars>>
  /\ UNCHANGED cvars

InitStackTest ==
  /\ QueueInit
  /\ ThreadInit(StackWorkers, [t \in StackWorkers |-> "pusher"])
  /\ StackInit
  /\ HistoryInit
  /\ CopyInit
  /\ results = <<>>

NextStackTest ==
  \/ JoinPushers
  \/ \E t \in StackWorkers :
       \/ Pusher(t) \/ Popper(t) \/ PopperRecord(t)
       \/ StackPushLock(t) \/ StackPushBody(t) \/ StackPushUnlock(t)
       \/ StackPopLock(t) \/ StackPopCheck(t) \/ StackPopTop(t)
       \/ StackPopPop(t) \/ StackPopUnlock(t)

SpecStackTest == InitStackTest /\ [][NextStackTest]_vars

(***************************************************************************)
(* threadsafe_stack(const threadsafe_stack& other): the stack of the model *)
(* is the source `other`; the object under construction is copy_data.      *)
(* The assignment data = other.data copies the elements one by one, from   *)
(* the bottom to the top.                                                  *)
(***************************************************************************)
\* the entry of the copy constructor: the member data is default-constructed
stack_copy(t) ==
  /\ Enter(t, "stack_copy", "s_copy_lock")
  /\ copy_data' = <<>>
  /\ snap' = <<>>
  /\ UNCHANGED <<qvars, role, new_data, p, tl, old_head, value, ret>>
  /\ UNCHANGED <<svars, results, pushed, popped, handed, absq>>

\* mutant: the copy constructor does not lock other.m
StackCopyLock_NoLock(t) ==
  /\ pc[t] = "s_copy_lock"
  /\ snap' = data
  /\ Goto(t, "s_copy_body")
  /\ UNCHANGED <<qvars, role, op, calls, new_data, p, tl, old_head, value, ret>>
  /\ UNCHANGED <<svars, results, hvars, copy_data>>

\* std::lock_guard<std::mutex> lock(other.m);
StackCopyLock(t) ==
  /\ pc[t] = "s_copy_lock"
  /\ m = NoThread
  /\ m' = t
  /\ snap' = data
  /\ Goto(t, "s_copy_body")
  /\ UNCHANGED <<qvars, role, op, calls, new_data, p, tl, old_head, value, ret>>
  /\ UNCHANGED <<data, res, results, hvars, copy_data>>

\* data = other.data;   (one element of the assignment)
StackCopyBody(t) ==
  /\ pc[t] = "s_copy_body"
  /\ Len(copy_data) < Len(data)
  /\ copy_data' = Append(copy_data, data[Len(copy_data) + 1])
  /\ UNCHANGED <<qvars, tvars, svars, results, hvars, snap>>

\* the end of the copy constructor: the lock_guard releases other.m
StackCopyUnlock(t) ==
  /\ pc[t] = "s_copy_body"
  /\ ~ (Len(copy_data) < Len(data))
  /\ m' = NoThread
  /\ ret' = [ret EXCEPT ![t] = Result("stack_copy", TRUE, NoData)]
  /\ role' = [role EXCEPT ![t] = "copy_owner"]
  /\ Goto(t, "returned")
  /\ UNCHANGED <<qvars, op, calls, new_data, p, tl, old_head, value>>
  /\ UNCHANGED <<data, res, results, hvars, cvars>>

\* a whole call on the copy, which no thread but its owner references:
\*   op |-> the call, ok |-> it did not raise empty_stack, val |-> its result
CopyCall(t, o, r) ==
  /\ pc' = [pc EXCEPT ![t] = "returned"]
  /\ op' = [op EXCEPT ![t] = o]
  /\ calls' = [calls EXCEPT ![t] = @ + 1]
  /\ ret' = [ret EXCEPT ![t] = r]
  /\ UNCHANGED <<qvars, role, new_data, p, tl, old_head, value>>
  /\ UNCHANGED <<svars, results, hvars, snap>>

\* push(new_value) on the copy
CopyPush(t, v) ==
  /\ copy_data' = Append(copy_data, v)
  /\ CopyCall(t, "copy_push", Result("copy_push", TRUE, NoData))

\* pop() on the copy
CopyPop(t) ==
  IF copy_data = <<>>
    THEN /\ UNCHANGED copy_data
         /\ CopyCall(t, "copy_pop", Result("copy_pop", FALSE, NoData))
    ELSE /\ copy_data' = SubSeq(copy_data, 1, Len(copy_data) - 1)
         /\ CopyCall(t, "copy_pop",
                     Result("copy_pop", TRUE, copy_data[Len(copy_data)]))

(***************************************************************************)
(* SpecStackCopy: the free mix on the stack, in which one thread copy-     *)
(* constructs a stack from it and then pushes to and pops from its copy    *)
(* while the other threads go on using the source.                         *)
(***************************************************************************)
Copier == 0

StackCallCopy(t) ==
  /\ role[t] = "copier"
  /\ Idle(t)
  /\ SumCalls(StackThreads) < MaxStackCalls
  /\ stack_copy(t)

CopyMayCall(t) ==
  role[t] = "copy_owner" /\ Idle(t) /\ SumCalls(StackThreads) < MaxStackCalls

CopyCallPush(t) == CopyMayCall(t) /\ \E v \in StackValues : CopyPush(t, v)
CopyCallPop(t) == CopyMayCall(t) /\ CopyPop(t)

InitStackCopy ==
  /\ QueueInit
  /\ ThreadInit(StackThreads,
                [t \in StackThreads |->
                   IF t = Copier THEN "copier" ELSE "stack_any"])
  /\ StackInit
  /\ HistoryInit
  /\ CopyInit
  /\ results = <<>>

NextStackCopy ==
  \E t \in StackThreads :
    \/ StackCallPush(t) \/ StackCallPop(t) \/ StackCallPopRef(t)
    \/ StackCallEmpty(t) \/ StackStep(t)
    \/ StackCallCopy(t) \/ StackCopyLock(t) \/ StackCopyBody(t)
    \/ StackCopyUnlock(t) \/ CopyCallPush(t) \/ CopyCallPop(t)

SpecStackCopy == InitStackCopy /\ [][NextStackCopy]_vars

(***************************************************************************)
(* SpecOrder: several producers and several consumers.  Producer id pushes *)
(* id * OrderPushes + i for i = 0, 1, ..., so that a payload names its     *)
(* producer and its place in that producer's pushes; the consumers call    *)
(* try_pop() and wait_and_pop(value).                                      *)
(***************************************************************************)
OrderProducers == {0, 1}
OrderConsumers == {2, 3}
OrderThreads == OrderProducers \cup OrderConsumers

OrderProducer(t) ==
  /\ role[t] = "order_producer"
  /\ Idle(t)
  /\ SumCalls(OrderProducers) < OrderPushes
  /\ push(t, t * OrderPushes + calls[t])

OrderMayPop(t) ==
  role[t] = "order_consumer" /\ Idle(t) /\ SumCalls(OrderConsumers) < OrderPops

OrderTryPop(t) == OrderMayPop(t) /\ try_pop(t, "try_pop")
OrderWaitAndPop(t) ==
  OrderMayPop(t) /\ wait_and_pop(t, "wait_and_pop_ref")

InitOrder ==
  /\ QueueInit
  /\ ThreadInit(OrderThreads,
                [t \in OrderThreads |->
                   IF t \in OrderProducers THEN "order_producer"
                                           ELSE "order_consumer"])
  /\ StackInit
  /\ HistoryInit
  /\ CopyInit
  /\ results = {}

NextOrder ==
  \E t \in OrderThreads :
    \/ OrderProducer(t) \/ OrderTryPop(t) \/ OrderWaitAndPop(t)
    \/ PushStep(t) \/ GetTailStep(t)
    \/ TryPopLock(t) \/ TryPopCheck(t) \/ CopyValue(t) \/ PopStep(t)
    \/ WaitLock(t) \/ WaitPred(t)

SpecOrder == InitOrder /\ [][NextOrder]_vars

(***************************************************************************)
(* SpecQueueSeq: test_sequential_operations of the queue.  One thread      *)
(* pushes 0, 1, ..., n - 1 (n <= QueueSeqPushes) and then runs             *)
(*   while (!queue.empty()) { int item;                                    *)
(*     if (queue.try_pop(item)) results.push_back(item); }                 *)
(* Nothing stops the thread, so the run is fair to it.                     *)
(***************************************************************************)
QueueSeqThreads == {0}

\* for (int i = 0; i < 10; ++i) queue.push(i);
QueueSeqPush(t) ==
  /\ role[t] = "qseq_push"
  /\ Idle(t)
  /\ calls[t] < QueueSeqPushes
  /\ push(t, calls[t])

\* the pushes are over
QueueSeqPushed(t) ==
  /\ role[t] = "qseq_push"
  /\ Idle(t)
  /\ role' = [role EXCEPT ![t] = "qseq_loop"]
  /\ Goto(t, "idle")
  /\ UNCHANGED <<qvars, op, calls, new_data, p, tl, old_head, value, ret>>
  /\ UNCHANGED <<svars, results, hvars, cvars>>

\* while (!queue.empty())   (the call)
QueueSeqEmpty(t) ==
  /\ role[t] = "qseq_loop"
  /\ pc[t] = "idle"
  /\ empty(t)

\* int item; if (queue.try_pop(item))   (the call, when empty() was false)
QueueSeqTryPop(t) ==
  /\ role[t] = "qseq_loop"
  /\ pc[t] = "returned" /\ ret[t].op = "empty" /\ ~ ret[t].ok
  /\ try_pop(t, "try_pop_ref")

\* results.push_back(item);   (when try_pop returned true)
QueueSeqRecord(t) ==
  /\ role[t] = "qseq_loop"
  /\ pc[t] = "returned" /\ ret[t].op = "try_pop_ref"
  /\ results' = IF ret[t].ok THEN Append(results, value[t]) ELSE results
  /\ Goto(t, "idle")
  /\ UNCHANGED <<qvars, role, op, calls, new_data, p, tl, old_head, value, ret>>
  /\ UNCHANGED <<svars, hvars, cvars>>

\* the loop ends: empty() was true
QueueSeqDone(t) ==
  /\ role[t] = "qseq_loop"
  /\ pc[t] = "returned" /\ ret[t].op = "empty" /\ ret[t].ok
  /\ role' = [role EXCEPT ![t] = "qseq_done"]
  /\ UNCHANGED <<qvars, pc, op, calls, new_data, p, tl, old_head, value, ret>>
  /\ UNCHANGED <<svars, results, hvars, cvars>>

InitQueueSeq ==
  /\ QueueInit
  /\ ThreadInit(QueueSeqThreads, [t \in QueueSeqThreads |-> "qseq_push"])
  /\ StackInit
  /\ HistoryInit
  /\ CopyInit
  /\ results = <<>>

NextQueueSeq ==
  \E t \in QueueSeqThreads :
    \/ QueueSeqPush(t) \/ QueueSeqPushed(t) \/ QueueSeqEmpty(t)
    \/ QueueSeqTryPop(t) \/ QueueSeqRecord(t) \/ QueueSeqDone(t)
    \/ PushStep(t) \/ GetTailStep(t)
    \/ TryPopLock(t) \/ TryPopCheck(t) \/ CopyValue(t) \/ PopStep(t)
    \/ EmptyLock(t) \/ EmptyReturn(t)

SpecQueueSeq == InitQueueSeq /\ [][NextQueueSeq]_vars /\ WF_vars(NextQueueSeq)

(***************************************************************************)
(* SpecOut: the calls that take the caller's value by reference.  Two      *)
(* threads call, MaxOutCalls times in total, push and try_pop(value) on    *)
(* the queue and push and pop(value) on the stack, each thread with one    *)
(* variable of its own as the argument.                                    *)
(***************************************************************************)
OutThreads == {0, 1}

OutMayCall(t) ==
  role[t] = "out_any" /\ Idle(t) /\ SumCalls(OutThreads) < MaxOutCalls

OutPush(t) == OutMayCall(t) /\ push(t, nextId)
OutTryPop(t) == OutMayCall(t) /\ try_pop(t, "try_pop_ref")
OutStackPush(t) == OutMayCall(t) /\ \E v \in StackValues : stack_push(t, v)
OutStackPop(t) == OutMayCall(t) /\ stack_pop(t, "stack_pop_ref")

InitOut ==
  /\ QueueInit
  /\ ThreadInit(OutThreads, [t \in OutThreads |-> "out_any"])
  /\ StackInit
  /\ HistoryInit
  /\ CopyInit
  /\ results = <<>>

NextOut ==
  \E t \in OutThreads :
    \/ OutPush(t) \/ OutTryPop(t) \/ OutStackPush(t) \/ OutStackPop(t)
    \/ PushStep(t) \/ GetTailStep(t)
    \/ TryPopLock(t) \/ TryPopCheck(t) \/ CopyValue(t) \/ PopStep(t)
    \/ StackPushLock(t) \/ StackPushBody(t) \/ StackPushUnlock(t)
    \/ StackPopLock(t) \/ StackPopCheck(t) \/ StackPopTop(t)
    \/ StackPopPop(t) \/ StackPopUnlock(t)

SpecOut == InitOut /\ [][NextOut]_vars

(***************************************************************************)
(* Helpers of the properties.                                              *)
(***************************************************************************)
Range(q) == {q[i] : i \in 1..Len(q)}

NoDuplicates(q) == \A i, j \in 1..Len(q) : q[i] = q[j] => i = j

\* the payloads of the nodes from n up to, and without, the node stop
RECURSIVE ChainFrom(_, _)
ChainFrom(n, stop) ==
  IF n = stop \/ n \notin DOMAIN nodes
    THEN <<>>
    ELSE <<nodes[n].data>> \o ChainFrom(nodes[n].next, stop)

\* the first node of the chain: head, or, between the two statements of
\* pop_head, the node the holder of head_mutex has just moved out of head
QueueFront == IF head # NullPtr THEN head ELSE old_head[head_mutex]

\* the steps a thread takes inside an operation (calls and wake-ups apart)
ThreadStep(t) ==
  \/ PushStep(t) \/ GetTailStep(t)
  \/ TryPopLock(t) \/ TryPopCheck(t) \/ CopyValue(t) \/ PopStep(t)
  \/ WaitLock(t) \/ WaitPred(t)
  \/ EmptyLock(t) \/ EmptyReturn(t)

(***************************************************************************)
(* C1  Queue completeness, safety part (SpecPC).  Every payload handed to  *)
(* a consumer is one whose push took effect, no payload is handed out      *)
(* twice, results holds only handed payloads, and once                     *)
(* num_producers * items_per_producer removals have returned, the payloads *)
(* handed out are exactly the pushed ones, 0 .. P*M-1.                     *)
(***************************************************************************)
ExpectedValues == 0 .. (Cardinality(Producers) * ItemsPerProducer - 1)

C1_Completeness ==
  /\ Range(handed) \subseteq Range(pushed)
  /\ Range(pushed) \subseteq ExpectedValues
  /\ NoDuplicates(handed)
  /\ NoDuplicates(pushed)
  /\ results \subseteq Range(handed)
  /\ Len(handed) = Cardinality(ExpectedValues) => Range(handed) = ExpectedValues
  /\ (\A c \in Consumers : pc[c] = "idle" /\ calls[c] = ItemsPerConsumer)
       => results = ExpectedValues

\* all consumers have finished their loops and results is complete
C1_Witness ==
  /\ \A c \in Consumers : pc[c] = "idle" /\ calls[c] = ItemsPerConsumer
  /\ Len(handed) = Cardinality(ExpectedValues)
  /\ results = ExpectedValues

(***************************************************************************)
(* C2  Queue wait_and_pop liveness (SpecPC, no spurious wake-ups).  No     *)
(* consumer is parked in data_cond.wait with head != tail once every       *)
(* producer has finished and every other consumer is finished or parked    *)
(* too: in such a state nothing will ever wake it.                         *)
(***************************************************************************)
ProducersFinished ==
  \A q \in Producers : Idle(q) /\ calls[q] = ItemsPerProducer

ConsumerFinished(c) == pc[c] = "idle" /\ calls[c] = ItemsPerConsumer

C2_NoConsumerParkedForever ==
  ~ \E c \in Consumers :
      /\ c \in waiters
      /\ head # tail
      /\ ProducersFinished
      /\ \A d \in Consumers : d \in waiters \/ ConsumerFinished(d)

(***************************************************************************)
(* C3  Queue lock ordering (Spec).  No thread requests head_mutex while it *)
(* holds tail_mutex; a thread inside push holds tail_mutex only, between   *)
(* its lock and unlock; a thread on a pop/empty path holds tail_mutex only *)
(* inside get_tail, where it already holds head_mutex, and requests        *)
(* tail_mutex only with head_mutex held.                                   *)
(***************************************************************************)
RequestsHead(t) == pc[t] \in {"try_lock", "wait_lock", "empty_lock"}

C3_LockOrder ==
  \A t \in DOMAIN pc :
    /\ RequestsHead(t) => tail_mutex # t /\ head_mutex # t
    /\ op[t] = "push" => head_mutex # t
    /\ (op[t] = "push" /\ tail_mutex = t)
         <=> pc[t] \in {"push_data", "push_link", "push_tail", "push_unlock"}
    /\ (op[t] # "push" /\ tail_mutex = t) <=> pc[t] = "gt_ret"
    /\ pc[t] \in {"gt_lock", "gt_ret"} => head_mutex = t

\* a pop-path thread is inside get_tail with both mutexes while a pushing
\* thread is waiting for tail_mutex
C3_Witness ==
  \E t, u \in DOMAIN pc :
    /\ op[t] \in TryOps /\ head_mutex = t /\ tail_mutex = t
    /\ pc[u] = "push_lock"

(***************************************************************************)
(* C4  Queue mutex-deadlock freedom (Spec).  A thread blocked in the       *)
(* condition-variable wait holds neither mutex; the holder of tail_mutex   *)
(* can always take a step; the holder of head_mutex can take a step or is  *)
(* waiting for tail_mutex, whose holder can take a step.  So no set of     *)
(* threads waits for the two mutexes in a circle.                          *)
(***************************************************************************)
C4_NoMutexDeadlock ==
  /\ \A t \in waiters : head_mutex # t /\ tail_mutex # t /\ pc[t] = "wait_sleep"
  /\ tail_mutex # NoThread => ENABLED ThreadStep(tail_mutex)
  /\ head_mutex # NoThread =>
       \/ ENABLED ThreadStep(head_mutex)
       \/ /\ pc[head_mutex] = "gt_lock"
          /\ tail_mutex \notin {NoThread, head_mutex}
          /\ ENABLED ThreadStep(tail_mutex)

\* the holder of head_mutex waits for tail_mutex, held by a pushing thread,
\* while a third thread sleeps in the condition-variable wait
C4_Witness ==
  \E t, u, w \in DOMAIN pc :
    /\ head_mutex = t /\ pc[t] = "gt_lock"
    /\ tail_mutex = u /\ op[u] = "push"
    /\ w \in waiters

(***************************************************************************)
(* C5  Queue FIFO law (SpecFifo).  With the single producer pushing        *)
(* 1, 2, ..., the i-th payload a removing call of the single consumer      *)
(* returns is i, whichever of try_pop / wait_and_pop returned it; and a    *)
(* try_pop running after FifoPushes payloads were returned is on its way   *)
(* to return the empty outcome.                                            *)
(***************************************************************************)
C5_Fifo ==
  /\ \A i \in 1..Len(handed) : handed[i] = i
  /\ Len(handed) <= FifoPushes
  /\ \A c \in DOMAIN pc :
       (Len(handed) = FifoPushes /\ op[c] \in TryOps) =>
         /\ pc[c] \notin {"copy_value", "pop_move", "pop_adv"}
         /\ pc[c] \in {"pop_unlock", "pop_ret"} => old_head[c] = NullPtr
         /\ pc[c] = "pop_ret" => ~ PopResult(op[c], old_head[c]).ok

\* all payloads were returned in order and a further try_pop returns empty
C5_Witness ==
  /\ handed = [i \in 1..FifoPushes |-> i]
  /\ \E c \in DOMAIN pc :
       /\ pc[c] = "returned" /\ calls[c] = FifoPushes + 1
       /\ ret[c].op = "try_pop" /\ ~ ret[c].ok

(***************************************************************************)
(* C6  Queue linearizability (Spec).  absq is an atomic FIFO queue that    *)
(* takes every push at its tail advance and every removal at its head      *)
(* advance, and that is asked for emptiness when get_tail reads tail: all  *)
(* these instants lie inside the calls, so the order of non-overlapping    *)
(* calls is kept.  The chain between head and tail always holds exactly    *)
(* the content of absq, and every completed call returned what absq        *)
(* answered at its instant: a removed payload is the front of absq, the    *)
(* empty outcome of try_pop and the answer of empty() are the emptiness of *)
(* absq.                                                                   *)
(***************************************************************************)
Linearized(t) ==
  CASE ret[t].op = "try_pop" ->
         IF ret[t].ok THEN ~ lin[t].empty /\ ret[t].val = lin[t].val
                      ELSE lin[t].empty
    [] ret[t].op = "try_pop_ref" ->
         IF ret[t].ok THEN ~ lin[t].empty /\ value[t] = lin[t].val
                      ELSE lin[t].empty
    [] ret[t].op = "wait_and_pop" -> ~ lin[t].empty /\ ret[t].val = lin[t].val
    [] ret[t].op = "wait_and_pop_ref" -> ~ lin[t].empty /\ value[t] = lin[t].val
    [] ret[t].op = "empty" -> ret[t].ok = lin[t].empty
    [] OTHER -> TRUE

C6_Linearizable ==
  /\ ChainFrom(QueueFront, tail) = absq
  /\ \A t \in DOMAIN pc : pc[t] = "returned" => Linearized(t)

\* a try_pop returned the empty outcome although a push that overlapped it
\* has taken effect, and another thread's removal returned that payload
C6_Witness ==
  \E t, u \in DOMAIN pc :
    /\ pc[t] = "returned" /\ ret[t].op = "try_pop" /\ ~ ret[t].ok
    /\ pc[u] = "returned" /\ ret[u].op = "wait_and_pop"
    /\ Len(pushed) = 1 /\ ret[u].val = pushed[1]

(***************************************************************************)
(* C7  Queue try_pop on empty (Spec).  A thread inside try_pop is never    *)
(* blocked in the condition-variable wait; and when its get_tail returned  *)
(* the node head references, every further step of the call leaves head,   *)
(* tail and the chain as they are, does not touch the caller's value, and  *)
(* the call returns the no-value outcome.                                  *)
(***************************************************************************)
EmptySeen(t) ==
  /\ op[t] \in TryOps
  /\ \/ pc[t] = "try_cmp" /\ head = tl[t]
     \/ pc[t] \in {"pop_unlock", "pop_ret"} /\ old_head[t] = NullPtr

C7_TryPopOnEmpty ==
  [][\A t \in DOMAIN pc :
       /\ (op[t] \in TryOps /\ ~ Idle(t)) => t \notin waiters
       /\ (EmptySeen(t) /\ pc'[t] # pc[t]) =>
            /\ UNCHANGED <<head, tail, nodes, waiters, value>>
            /\ pc'[t] \in {"pop_unlock", "pop_ret", "returned"}
            /\ pc'[t] = "returned" =>
                 ~ ret'[t].ok /\ ret'[t].val = NoData /\ ret'[t].op = op[t]
            /\ pc'[t] # "returned" => old_head'[t] = NullPtr]_vars

\* try_pop(value) returned false while another thread was inside the locked
\* part of a push whose tail advance had not happened yet
C7_Witness ==
  \E t, u \in DOMAIN pc :
    /\ pc[t] = "returned" /\ ret[t].op = "try_pop_ref" /\ ~ ret[t].ok
    /\ pc[u] \in {"push_data", "push_link", "push_tail"}
    /\ head = tail

(***************************************************************************)
(* C8  Stack empty-pop failure (SpecStack).  The emptiness check of either *)
(* pop overload, made with m held, ends the call at once with empty_stack  *)
(* exactly when the stack holds no element, and then leaves the sequence   *)
(* empty, the mutex free and the caller's value untouched; on a non-empty  *)
(* stack the call goes on to remove the top and never raises.              *)
(***************************************************************************)
C8_EmptyPop ==
  [][\A t \in DOMAIN pc :
       /\ pc[t] \in {"s_pop_check", "s_pop_top", "s_pop_pop"} => m = t
       /\ pc[t] \in {"s_pop_top", "s_pop_pop"} => data # <<>>
       /\ (pc[t] = "s_pop_check" /\ pc'[t] # pc[t]) =>
            IF data = <<>>
              THEN /\ pc'[t] = "returned"
                   /\ ret'[t] = Result(op[t], FALSE, NoData)
                   /\ data' = <<>> /\ m' = NoThread
                   /\ UNCHANGED <<value, res, handed, popped>>
              ELSE pc'[t] = "s_pop_top" /\ UNCHANGED <<data, m, ret>>
       /\ (op[t] \in StackPops /\ pc[t] # "returned" /\ pc'[t] = "returned"
             /\ ~ ret'[t].ok) => pc[t] = "s_pop_check" /\ data = <<>>]_vars

\* pop(value) has raised empty_stack on a stack that was pushed to and
\* emptied before, by a pop() that succeeded
C8_Witness ==
  \E t, u \in DOMAIN pc :
    /\ pc[t] = "returned" /\ ret[t].op = "stack_pop_ref" /\ ~ ret[t].ok
    /\ pc[u] = "returned" /\ ret[u].op = "stack_pop" /\ ret[u].ok
    /\ data = <<>> /\ pushed # <<>>

(***************************************************************************)
(* C9  Stack LIFO law (SpecStackSeq).  After push(a1), ..., push(an) by    *)
(* one thread on the empty stack, the i-th pop returns a(n+1-i), no pop    *)
(* raises empty_stack, and the empty() called after the n pops returns     *)
(* true.                                                                   *)
(***************************************************************************)
C9_Lifo ==
  /\ Len(handed) <= Len(pushed)
  /\ \A i \in 1..Len(handed) : handed[i] = pushed[Len(pushed) + 1 - i]
  /\ \A t \in DOMAIN pc :
       /\ (pc[t] = "returned" /\ ret[t].op \in StackPops) => ret[t].ok
       /\ (pc[t] = "returned" /\ ret[t].op = "stack_pop") =>
            ret[t].val = handed[Len(handed)]
       /\ (pc[t] = "returned" /\ ret[t].op = "stack_pop_ref") =>
            value[t] = handed[Len(handed)]
       /\ (pc[t] = "returned" /\ ret[t].op = "stack_empty") =>
            ret[t].ok /\ Len(handed) = Len(pushed) /\ data = <<>>

\* MaxSeqLen pushes whose first and last payloads differ, as many pops, and
\* empty() has returned true
C9_Witness ==
  \E t \in DOMAIN pc :
    /\ pc[t] = "returned" /\ ret[t].op = "stack_empty" /\ ret[t].ok
    /\ Len(pushed) = MaxSeqLen /\ pushed[1] # pushed[MaxSeqLen]
    /\ Len(handed) = MaxSeqLen
    /\ handed[1] = pushed[MaxSeqLen] /\ handed[MaxSeqLen] = pushed[1]

(***************************************************************************)
(* C10  Stack concurrent conservation (SpecStackTest).  Once all pushing   *)
(* threads are joined, no pop of the popping threads raises empty_stack,   *)
(* no payload is popped twice, every popped payload was pushed, and when   *)
(* all popping threads are done results holds each of the                  *)
(* N = threads * items_per_thread pushed payloads 0 .. N-1 exactly once    *)
(* and the stack is empty.                                                 *)
(***************************************************************************)
StackExpected == 0 .. (Cardinality(StackWorkers) * StackItemsPerThread - 1)

PoppersDone ==
  \A t \in DOMAIN pc :
    role[t] = "popper" /\ pc[t] = "idle" /\ calls[t] = StackItemsPerThread

C10_Conservation ==
  /\ \A t \in DOMAIN pc :
       (role[t] = "popper" /\ pc[t] = "returned") => ret[t].ok
  /\ NoDuplicates(results)
  /\ NoDuplicates(handed)
  /\ Range(results) \subseteq Range(handed)
  /\ Range(handed) \subseteq Range(pushed)
  /\ Range(pushed) \subseteq StackExpected
  /\ PoppersDone =>
       /\ Len(results) = Cardinality(StackExpected)
       /\ Range(results) = StackExpected
       /\ data = <<>>

\* all popping threads are done, and the payloads did not come out in the
\* reverse of the order they went in
C10_Witness ==
  /\ PoppersDone
  /\ Len(results) = Cardinality(StackExpected)
  /\ \E i \in 1..Len(results) : results[i] # pushed[Len(pushed) + 1 - i]

(***************************************************************************)
(* C11  Stack mutual exclusion (SpecStackCopy).  A thread that is about to *)
(* read or write the stack's sequence - in push, in either pop, in empty,  *)
(* or as the source of a copy construction - holds the mutex m, and at     *)
(* most one thread is at such a statement; the sequence changes only in a  *)
(* step of the holder of m.                                                *)
(***************************************************************************)
\* the thread's next statement reads or writes data
Accessing(t) ==
  pc[t] \in {"s_push_body", "s_pop_check", "s_pop_top", "s_pop_pop",
             "s_empty_ret", "s_copy_body"}

C11_MutualExclusion ==
  /\ \A t \in DOMAIN pc : Accessing(t) => m = t
  /\ Cardinality({t \in DOMAIN pc : Accessing(t)}) <= 1
  /\ \A t \in DOMAIN pc :
       pc[t] \in {"s_push_lock", "s_pop_lock", "s_empty_lock", "s_copy_lock"}
         => m # t

\* the copy constructor is copying with m held while one thread waits for m
\* in push and another one in pop
C11_Witness ==
  \E t, u, w \in DOMAIN pc :
    /\ pc[t] = "s_copy_body" /\ m = t /\ Len(copy_data) = 0 /\ Len(data) = 1
    /\ pc[u] = "s_push_lock"
    /\ pc[w] = "s_pop_lock"

(***************************************************************************)
(* C12  Stack copy-under-lock (SpecStackCopy).  snap is the source's       *)
(* sequence at the instant the copy constructor took m, an instant at      *)
(* which no thread is inside the locked part of an operation on the        *)
(* source.  While the constructor copies, the source stays equal to snap   *)
(* and the copy is a prefix of snap; when the constructor has returned the *)
(* copy equals snap, element for element, whatever the other threads have  *)
(* done to the source since.  Afterwards a step that changes the source    *)
(* leaves the copy alone and a call on the copy leaves the source alone.   *)
(***************************************************************************)
\* the thread is inside the locked part of an operation on the source
InLocked(t) ==
  pc[t] \in {"s_push_body", "s_push_unlock", "s_pop_check", "s_pop_top",
             "s_pop_pop", "s_pop_unlock", "s_empty_ret"}

CopyIsSnapshot ==
  \A t \in DOMAIN pc :
    /\ pc[t] = "s_copy_body" =>
         /\ data = snap
         /\ Len(copy_data) <= Len(snap)
         /\ copy_data = SubSeq(snap, 1, Len(copy_data))
         /\ \A u \in DOMAIN pc : ~ InLocked(u)
    /\ (pc[t] = "returned" /\ ret[t].op = "stack_copy") => copy_data = snap

CopyIsIndependent ==
  /\ data' # data => copy_data' = copy_data
  /\ \A t \in DOMAIN pc :
       (op'[t] \in {"copy_push", "copy_pop"} /\ calls'[t] # calls[t]) =>
         data' = data /\ m' = m

C12_CopyUnderLock == [] CopyIsSnapshot /\ [][CopyIsIndependent]_vars

\* the copy constructor has returned a copy of a one-element source, after
\* which the source was emptied, and a push on the source is under way
C12_Witness ==
  \E t, u \in DOMAIN pc :
    /\ pc[t] = "returned" /\ ret[t].op = "stack_copy"
    /\ Len(snap) = 1 /\ copy_data = snap
    /\ data = <<>>
    /\ pc[u] = "s_push_body"

(***************************************************************************)
(* C13  Queue non-blocking operations terminate (SpecLive: the free mix    *)
(* under a scheduler that is fair to every thread).  Only a thread inside  *)
(* wait_and_pop is ever blocked on the condition variable; every step of a *)
(* thread inside push, try_pop or empty moves it strictly forward through  *)
(* the statements of its call, of which there are finitely many; a thread  *)
(* inside such a call that has passed its last lock acquisition can always *)
(* take its next step, and it returns, whether or not the queue is empty   *)
(* and whether or not other threads are parked in wait_and_pop.            *)
(***************************************************************************)
\* a scheduler that lets every thread that can take a step take one
Fairness == \A t \in Threads : WF_vars(ThreadStep(t))

SpecLive == Spec /\ Fairness

NonBlockingOps == {"push", "try_pop", "try_pop_ref", "empty"}

\* the position of a statement inside the non-blocking calls
Rank(l) ==
  CASE l \in {"push_lock", "try_lock", "empty_lock"} -> 1
    [] l \in {"push_data", "gt_lock"} -> 2
    [] l \in {"push_link", "gt_ret"} -> 3
    [] l \in {"push_tail", "try_cmp", "empty_cmp"} -> 4
    [] l \in {"push_unlock", "copy_value"} -> 5
    [] l \in {"push_notify", "pop_move"} -> 6
    [] l = "pop_adv" -> 7
    [] l = "pop_unlock" -> 8
    [] l = "pop_ret" -> 9
    [] l = "returned" -> 10
    [] OTHER -> 0

InNonBlocking(t) == op[t] \in NonBlockingOps /\ ~ Idle(t)

\* the thread is inside a non-blocking call and past its lock acquisitions
LocksObtained(t) ==
  /\ InNonBlocking(t)
  /\ pc[t] \notin {"push_lock", "try_lock", "empty_lock", "gt_lock"}

NeverBlockedOnceLocked ==
  \A t \in DOMAIN pc : LocksObtained(t) => ENABLED ThreadStep(t)

OnlyWaitAndPopWaits ==
  \A t \in DOMAIN pc :
    (t \in waiters \/ pc[t] \in {"wait_sleep", "wait_pred"}) => op[t] \in WaitOps

MovesForward ==
  \A t \in DOMAIN pc :
    (InNonBlocking(t) /\ pc'[t] # pc[t]) =>
      /\ Rank(pc[t]) > 0
      /\ Rank(pc'[t]) > Rank(pc[t])

C13_NonBlockingTerminate ==
  /\ [] OnlyWaitAndPopWaits
  /\ [] NeverBlockedOnceLocked
  /\ [][MovesForward]_vars
  /\ \A t \in Threads : LocksObtained(t) ~> (pc[t] = "returned")

\* try_pop has returned the no-value outcome and empty has returned true
\* while a third thread is parked in wait_and_pop
C13_Witness ==
  \E t, u, w \in DOMAIN pc :
    /\ pc[t] = "returned" /\ ret[t].op = "try_pop" /\ ~ ret[t].ok
    /\ pc[u] = "returned" /\ ret[u].op = "empty" /\ ret[u].ok
    /\ w \in waiters /\ op[w] = "wait_and_pop"

(***************************************************************************)
(* C14  Queue dummy-node invariant (Spec).  Completed pushes and removals  *)
(* are counted at their tail advance and head advance.  In every state in  *)
(* which no thread is inside the tail-locked body of push: the chain that  *)
(* starts at the front node has at least one node; tail is its last node,  *)
(* with an empty next link and an empty payload slot; every other node of  *)
(* it carries a pushed payload; it has 1 + pushes - removals nodes; and    *)
(* the front node is tail exactly when pushes = removals.  The front node  *)
(* is the node head references, except between the two statements of       *)
(* pop_head, where head is null, head_mutex is held, and the front node is *)
(* the one just moved into old_head.                                       *)
(***************************************************************************)
\* the nodes reachable from n through the next links, in order
RECURSIVE ChainNodes(_)
ChainNodes(n) ==
  IF n \notin DOMAIN nodes THEN <<>> ELSE <<n>> \o ChainNodes(nodes[n].next)

\* a thread is inside the tail-locked body of push
InPushBody == \E t \in DOMAIN pc : op[t] = "push" /\ tail_mutex = t

\* the dummy-node invariant of the chain that starts at node front
DummyNode(front) ==
  LET c == ChainNodes(front) IN
    /\ Len(c) >= 1
    /\ c[Len(c)] = tail
    /\ nodes[tail].next = NullPtr
    /\ nodes[tail].data = NoData
    /\ \A i \in 1..(Len(c) - 1) : nodes[c[i]].data \in Range(pushed)
    /\ Len(c) = 1 + Len(pushed) - Len(popped)
    /\ (front = tail) <=> (Len(pushed) = Len(popped))

\* a thread is between the two statements of pop_head
InPopHead(t) == pc[t] = "pop_adv" /\ head_mutex = t

C14_DummyNode ==
  /\ (head = NullPtr) <=> (\E t \in DOMAIN pc : InPopHead(t))
  /\ ~ InPushBody => DummyNode(QueueFront)

\* the statement without the exception for pop_head: the chain that starts
\* at head satisfies the invariant in every state outside the body of push
C14_DummyNodeFromHead == ~ InPushBody => DummyNode(head)

\* a thread is between the two statements of pop_head, head is null, and
\* the chain still holds the two pushed payloads and the dummy
C14_Witness ==
  \E t \in DOMAIN pc :
    /\ InPopHead(t) /\ head = NullPtr
    /\ ~ InPushBody
    /\ Len(pushed) = 2 /\ popped = <<>>
    /\ Len(ChainNodes(old_head[t])) = 3

(***************************************************************************)
(* C15  Queue wait_and_pop never removes from an empty queue (Spec, with   *)
(* spurious wake-ups and competing consumers).  A thread inside            *)
(* wait_and_pop is at the statements of the removal only while it holds    *)
(* head_mutex and head differs from tail; the node it reads there carries  *)
(* a pushed payload; the removal leaves head non-null; and the call        *)
(* returns a pushed payload.  Every evaluation of the wait predicate, the  *)
(* first one and the ones after a wake-up, sends the thread back to sleep  *)
(* with head_mutex released when head equals tail, and lets it go on to    *)
(* the removal only when they differ.                                      *)
(***************************************************************************)
RemovesOnlyFromNonEmpty ==
  \A t \in DOMAIN pc :
    op[t] \in WaitOps =>
      /\ (pc[t] = "wait_pred" /\ head # tl[t]) => head # tail
      /\ pc[t] \in {"copy_value", "pop_move"} =>
           /\ head_mutex = t
           /\ head # NullPtr /\ head # tail
           /\ nodes[head].data \in Range(pushed)
           /\ nodes[head].next # NullPtr
      /\ pc[t] = "pop_adv" =>
           /\ head_mutex = t
           /\ old_head[t] \notin {NullPtr, tail}
           /\ nodes[old_head[t]].next # NullPtr
      /\ pc[t] = "pop_unlock" =>
           head_mutex = t /\ head # NullPtr /\ old_head[t] # NullPtr
      /\ pc[t] = "pop_ret" =>
           old_head[t] # NullPtr /\ nodes[old_head[t]].data \in Range(pushed)
      /\ (pc[t] = "returned" /\ ret[t].op = op[t]) =>
           /\ ret[t].ok
           /\ (IF op[t] \in RefOps THEN value[t] ELSE ret[t].val) \in Range(pushed)

RechecksPredicate ==
  \A t \in DOMAIN pc :
    (pc[t] = "wait_pred" /\ pc'[t] # pc[t]) =>
      IF head = tail
        THEN /\ pc'[t] = "wait_sleep"
             /\ t \in waiters'
             /\ head_mutex' = NoThread
             /\ UNCHANGED <<head, tail, nodes, value>>
        ELSE pc'[t] \in {"wait_sleep", Removal(op[t])}

C15_WaitNeverRemovesFromEmpty ==
  [] RemovesOnlyFromNonEmpty /\ [][RechecksPredicate]_vars

\* a thread that found the queue empty before was woken, and is about to
\* evaluate the predicate again after a competing try_pop took the only
\* element
C15_Witness ==
  \E t, u \in DOMAIN pc :
    /\ op[t] \in WaitOps /\ pc[t] = "gt_lock" /\ lin[t].empty
    /\ head = tail
    /\ Len(pushed) = 1 /\ Len(popped) = 1
    /\ pc[u] = "returned" /\ ret[u].op = "try_pop" /\ ret[u].ok

(***************************************************************************)
(* C16  Queue multi-producer/multi-consumer order (SpecOrder).  pushed     *)
(* lists the payloads in the order of the tail advances, each made with    *)
(* tail_mutex held, and popped the payloads of the removed nodes in the    *)
(* order of the head advances, each made with head_mutex held.  The k-th   *)
(* removal removes the k-th pushed payload, and the call that made the     *)
(* k-th removal hands its caller that payload; so the payloads of one      *)
(* producer are pushed, and removed, in the order that producer pushed     *)
(* them, whatever the other producers push in between.                     *)
(***************************************************************************)
ProducerOf(v) == v \div OrderPushes

\* the payloads of each producer appear in q in increasing order
InProducerOrder(q) ==
  \A i, j \in 1..Len(q) :
    (i < j /\ ProducerOf(q[i]) = ProducerOf(q[j])) => q[i] < q[j]

\* the payload the caller of a successful removal holds, or is about to
HandsOver(t) ==
  IF pc[t] = "returned"
    THEN (IF ret[t].op \in RefOps THEN value[t] ELSE ret[t].val)
    ELSE Handed(t, op[t], old_head[t])

\* the head advance of the current, or last, call of the thread has happened
Removed(t) ==
  \/ pc[t] \in {"pop_unlock", "pop_ret"} /\ old_head[t] # NullPtr
  \/ pc[t] = "returned" /\ ret[t].op \in (TryOps \cup WaitOps) /\ ret[t].ok

C16_Order ==
  /\ Len(popped) <= Len(pushed)
  /\ \A k \in 1..Len(popped) : popped[k] = pushed[k]
  /\ InProducerOrder(pushed)
  /\ InProducerOrder(popped)
  /\ \A t \in DOMAIN pc :
       /\ pc[t] = "push_tail" => tail_mutex = t
       /\ pc[t] = "pop_adv" => head_mutex = t
       /\ Removed(t) =>
            /\ lin[t].k \in 1..Len(popped)
            /\ HandsOver(t) = pushed[lin[t].k]
            /\ \A u \in DOMAIN pc : (u # t /\ Removed(u)) => lin[u].k # lin[t].k

\* the two producers' pushes took effect interleaved and not in the order
\* of the thread ids, and the three payloads were removed by two consumers,
\* one through try_pop() and one through wait_and_pop(value)
C16_Witness ==
  \E t, u \in DOMAIN pc :
    /\ Len(pushed) = 3 /\ Len(popped) = 3
    /\ ProducerOf(pushed[1]) = 1
    /\ ProducerOf(pushed[2]) = 0
    /\ ProducerOf(pushed[3]) = 1
    /\ pc[t] = "returned" /\ ret[t].op = "try_pop" /\ ret[t].ok
    /\ pc[u] = "returned" /\ ret[u].op = "wait_and_pop_ref"
    /\ lin[u].k = 2 /\ value[u] = pushed[2]

(***************************************************************************)
(* C17  Queue push/pop disjointness (Spec).  A consumer that holds         *)
(* head_mutex and has seen head differ from the tail it read keeps         *)
(* head # tail up to its removal, and the node it removes is not the node  *)
(* tail references; tail only ever moves one node further from the front  *)
(* of the chain; and no two threads are at statements that read or write   *)
(* the fields of the same node: a push about to write tail->data or        *)
(* tail->next and a removal about to read head->data or old_head->next are *)
(* at different nodes.                                                     *)
(***************************************************************************)
\* the node whose fields the next statement of the thread reads or writes
Touches(t) ==
  CASE pc[t] \in {"push_data", "push_link"} -> tail
    [] pc[t] = "copy_value" -> head
    [] pc[t] \in {"pop_adv", "pop_ret"} -> old_head[t]
    [] OTHER -> NullPtr

RemovedIsNotTail ==
  \A t \in DOMAIN pc :
    /\ (pc[t] \in {"try_cmp", "wait_pred"} /\ head # tl[t]) =>
         head_mutex = t /\ head # tail
    /\ pc[t] \in {"copy_value", "pop_move"} => head_mutex = t /\ head # tail
    /\ pc[t] = "pop_adv" => old_head[t] # tail
    /\ pc[t] \in {"pop_unlock", "pop_ret"} => old_head[t] # tail

NoSharedNode ==
  \A t, u \in DOMAIN pc :
    (t # u /\ Touches(t) # NullPtr) => Touches(t) # Touches(u)

\* tail moves from the last but one node of the chain to the last one
TailAdvancesAway ==
  tail' # tail =>
    LET c == ChainNodes(QueueFront) IN
      /\ Len(c) >= 2
      /\ c[Len(c) - 1] = tail
      /\ c[Len(c)] = tail'
      /\ tail' # QueueFront
      /\ \A t \in DOMAIN pc : old_head[t] # tail'

C17_Disjoint ==
  /\ [] RemovedIsNotTail
  /\ [] NoSharedNode
  /\ [][TailAdvancesAway]_vars

\* a push is about to write the fields of the node tail references while a
\* try_pop(value) is about to read the payload of the node just before it
C17_Witness ==
  \E t, u \in DOMAIN pc :
    /\ pc[t] \in {"push_data", "push_link"} /\ tail_mutex = t
    /\ pc[u] = "copy_value" /\ op[u] = "try_pop_ref" /\ head_mutex = u
    /\ head # tail /\ nodes[head].next = tail

(***************************************************************************)
(* C18  Queue push signalling order (Spec).  The steps of a thread inside  *)
(* push follow each other in one order: the write of the payload into the  *)
(* node tail references, the link of the new empty node behind it, the     *)
(* advance of tail to the new node, the release of tail_mutex, and one     *)
(* notify_one, after which the call returns.  The first three are made     *)
(* with tail_mutex held; at the notification the thread holds no mutex and *)
(* the tail advance of its payload has happened; the notification wakes    *)
(* exactly one waiting thread if there is one, and none otherwise.         *)
(***************************************************************************)
PushOrder(t) ==
  CASE pc[t] = "push_lock" ->
         /\ pc'[t] = "push_data"
         /\ tail_mutex' = t /\ head_mutex # t
         /\ UNCHANGED <<nodes, tail, waiters>>
    [] pc[t] = "push_data" ->
         /\ pc'[t] = "push_link"
         /\ tail_mutex = t /\ tail_mutex' = t
         /\ nodes[tail].data = NoData
         /\ nodes' = [nodes EXCEPT ![tail].data = new_data[t]]
         /\ UNCHANGED <<tail, waiters>>
    [] pc[t] = "push_link" ->
         /\ pc'[t] = "push_tail"
         /\ tail_mutex = t /\ tail_mutex' = t
         /\ nodes[tail].data = new_data[t]
         /\ nodes[p[t]] = EmptyNode
         /\ nodes' = [nodes EXCEPT ![tail].next = p[t]]
         /\ UNCHANGED <<tail, waiters>>
    [] pc[t] = "push_tail" ->
         /\ pc'[t] = "push_unlock"
         /\ tail_mutex = t /\ tail_mutex' = t
         /\ nodes[tail].next = p[t]
         /\ tail' = p[t]
         /\ UNCHANGED <<nodes, waiters>>
    [] pc[t] = "push_unlock" ->
         /\ pc'[t] = "push_notify"
         /\ tail_mutex = t /\ tail_mutex' = NoThread
         /\ tail = p[t]
         /\ UNCHANGED <<nodes, tail, waiters>>
    [] pc[t] = "push_notify" ->
         /\ pc'[t] = "returned"
         /\ tail_mutex # t /\ head_mutex # t
         /\ new_data[t] \in Range(pushed)
         /\ waiters' \subseteq waiters
         /\ Cardinality(waiters \ waiters') = (IF waiters = {} THEN 0 ELSE 1)
         /\ \A w \in waiters \ waiters' : pc'[w] = "wait_lock"
         /\ UNCHANGED <<nodes, tail, head, head_mutex, tail_mutex>>
    [] OTHER -> FALSE

C18_PushOrder ==
  [][\A t \in DOMAIN pc :
       (op[t] = "push" /\ ~ Idle(t) /\ pc'[t] # pc[t]) => PushOrder(t)]_vars

\* a push has returned after waking one of two threads that were waiting
C18_Witness ==
  \E t, w, x \in DOMAIN pc :
    /\ pc[t] = "returned" /\ ret[t].op = "push"
    /\ Len(pushed) = 1
    /\ pc[w] = "wait_lock" /\ lin[w].empty
    /\ waiters = {x}

(***************************************************************************)
(* C19  Queue empty() with a single thread (SpecQueueSeq).  empty()        *)
(* returns true exactly when as many removals as pushes have taken effect, *)
(* and no step of the call changes head, tail or a node.  Every try_pop of *)
(* the loop  while (!empty()) try_pop(item)  succeeds and yields the next  *)
(* pushed value; the loop ends, and when it has ended after n pushes there *)
(* were n try_pop calls and n + 1 empty calls, and results holds the n     *)
(* pushed values in push order.                                            *)
(***************************************************************************)
EmptyAnswer ==
  \A t \in DOMAIN pc :
    /\ (pc[t] = "returned" /\ ret[t].op = "empty") =>
         (ret[t].ok <=> (Len(pushed) = Len(popped)))
    /\ (pc[t] = "returned" /\ ret[t].op = "try_pop_ref") =>
         /\ ret[t].ok
         /\ value[t] = pushed[Len(popped)]
         /\ results = SubSeq(pushed, 1, Len(popped) - 1)
    /\ role[t] = "qseq_done" =>
         /\ results = pushed
         /\ Len(popped) = Len(pushed)
         /\ calls[t] = 3 * Len(pushed) + 1
         /\ head = tail
    /\ Len(results) <= Len(pushed)
    /\ \A i \in 1..Len(pushed) : pushed[i] = i - 1

EmptyChangesNothing ==
  \A t \in DOMAIN pc :
    ((op[t] = "empty" /\ ~ Idle(t)) \/ (op'[t] = "empty" /\ ~ Idle(t)')) =>
      UNCHANGED <<head, tail, nodes, pushed, popped, results, value>>

C19_EmptySequential ==
  /\ [] EmptyAnswer
  /\ [][EmptyChangesNothing]_vars
  /\ <> (\A t \in QueueSeqThreads : role[t] = "qseq_done")

\* the loop has ended after QueueSeqPushes pushes
C19_Witness ==
  \E t \in DOMAIN pc :
    /\ role[t] = "qseq_done"
    /\ Len(pushed) = QueueSeqPushes
    /\ results = pushed
    /\ ret[t].op = "empty" /\ ret[t].ok

(***************************************************************************)
(* C20  Out-parameter untouched on the no-value path (SpecOut).            *)
(* lin[t].arg is the caller's value at the entry of its call.  When        *)
(* try_pop(value) returns false, and when pop(value) of the stack raises   *)
(* empty_stack, value equals lin[t].arg.  A step changes a thread's value  *)
(* only if it is the copy statement of that thread's try_pop(value), made  *)
(* with head # tail, or of its pop(value), made on a non-empty stack; the  *)
(* value it assigns is the payload of the node, or the top element, that   *)
(* the same call then removes.                                             *)
(***************************************************************************)
ValueKept(t) == value[t] = lin[t].arg

NoValuePath ==
  \A t \in DOMAIN pc :
    /\ (op[t] = "try_pop_ref" /\
        pc[t] \in {"try_lock", "gt_lock", "gt_ret", "try_cmp", "copy_value"})
         => ValueKept(t)
    /\ (op[t] = "try_pop_ref" /\ pc[t] \in {"pop_unlock", "pop_ret"}
          /\ old_head[t] = NullPtr) => ValueKept(t)
    /\ (pc[t] = "returned" /\ ret[t].op = "try_pop_ref") =>
         IF ret[t].ok THEN value[t] = lin[t].val ELSE ValueKept(t)
    /\ (op[t] = "stack_pop_ref" /\
        pc[t] \in {"s_pop_lock", "s_pop_check", "s_pop_top"}) => ValueKept(t)
    /\ (pc[t] = "returned" /\ ret[t].op = "stack_pop_ref" /\ ~ ret[t].ok)
         => ValueKept(t)
    /\ (op[t] = "stack_pop_ref" /\ pc[t] = "s_pop_pop") =>
         m = t /\ data # <<>> /\ value[t] = data[Len(data)]

OnlyRemovalOverwrites ==
  \A t \in DOMAIN pc :
    /\ value'[t] # value[t] =>
         \/ /\ op[t] = "try_pop_ref" /\ pc[t] = "copy_value"
            /\ head_mutex = t /\ head # tail
            /\ value'[t] = nodes[head].data
            /\ value'[t] = Head(absq)
         \/ /\ op[t] = "stack_pop_ref" /\ pc[t] = "s_pop_top"
            /\ m = t /\ data # <<>>
            /\ value'[t] = data[Len(data)]
    /\ (op[t] = "stack_pop_ref" /\ pc[t] = "s_pop_pop" /\ pc'[t] # pc[t]) =>
         /\ data' = SubSeq(data, 1, Len(data) - 1)
         /\ value'[t] = data[Len(data)]
    /\ (op[t] \in {"try_pop_ref", "stack_pop_ref"} /\ pc[t] # "returned"
          /\ pc'[t] = "returned" /\ ~ ret'[t].ok) =>
         value'[t] = lin[t].arg /\ lin'[t].arg = lin[t].arg

C20_OutParameter == [] NoValuePath /\ [][OnlyRemovalOverwrites]_vars

\* try_pop(value) has returned false with the value an earlier try_pop(value)
\* of the same thread had stored in it, and pop(value) of the other thread
\* has raised empty_stack
C20_Witness ==
  \E t, u \in DOMAIN pc :
    /\ t # u
    /\ pc[t] = "returned" /\ ret[t].op = "try_pop_ref" /\ ~ ret[t].ok
    /\ value[t] \notin {Uninit, NoData} /\ value[t] = lin[t].arg
    /\ pc[u] = "returned" /\ ret[u].op = "stack_pop_ref" /\ ~ ret[u].ok
    /\ value[u] = Uninit

=============================================================================
